---------------------------- MODULE Spec2Model ----------------------------
(***************************************************************************)
(* A model of proton (tools/proton.py): the Exporter that turns the sheets *)
(* of Excel workbooks into typed trees, checks the cross-sheet constraints *)
(* and saves the records that are out of date.                             *)
(*                                                                         *)
(* Text is a sequence of one-character strings, so that the program's      *)
(* string operations (strip, split, regular expressions, indexing) are     *)
(* computed on the characters as the code computes them.                   *)
(***************************************************************************)
EXTENDS Integers, Sequences, FiniteSets, TLC

(***************************************************************************)
(* Python values                                                           *)
(***************************************************************************)

\* Python's None where a text (or nothing) is expected: a sequence that is
\* no text (its only element is not a single character), so it differs from
\* every text, the empty text included.
None == <<"None">>

\* truth value of a text-or-None (bool(None) and bool('') are False)
Truthy(x) == x # None /\ x # <<>>

Min(S) == CHOOSE x \in S : \A y \in S : x <= y

Max(S) == CHOOSE x \in S : \A y \in S : x >= y

Lower == {"a","b","c","d","e","f","g","h","i","j","k","l","m",
          "n","o","p","q","r","s","t","u","v","w","x","y","z"}

Upper == {"A","B","C","D","E","F","G","H","I","J","K","L","M",
          "N","O","P","Q","R","S","T","U","V","W","X","Y","Z"}

\* [a-zA-Z]
Letters == Lower \cup Upper

DigitSeq == <<"0","1","2","3","4","5","6","7","8","9">>

Digits == {DigitSeq[i] : i \in 1..10}

\* \w of the re module, on ASCII text
WordChars == Letters \cup Digits \cup {"_"}

\* string.whitespace (the characters TLA+ strings can spell)
Whitespace == {" ", "\t", "\n", "\r", "\f"}

\* s.strip(): s without leading and trailing whitespace
strip(s) ==
    LET cut(keep) == IF keep = {} THEN <<>> ELSE SubSeq(s, Min(keep), Max(keep))
    IN  cut({i \in 1..Len(s) : s[i] \notin Whitespace})

\* s.strip(chars): s without leading and trailing characters of chars
stripchars(s, chars) ==
    LET cut(keep) == IF keep = {} THEN <<>> ELSE SubSeq(s, Min(keep), Max(keep))
    IN  cut({i \in 1..Len(s) : s[i] \notin chars})

\* s.split(sep) and re.split('[seps]', s): cut at every separator
\* character; adjacent separators and separators at the ends give empty
\* tokens, and a text without separator gives the one token s.
RECURSIVE split(_, _)
split(s, seps) ==
    LET at(i) == <<SubSeq(s, 1, i - 1)>> \o split(SubSeq(s, i + 1, Len(s)), seps)
        first(cut) == IF cut = {} THEN <<s>> ELSE at(Min(cut))
    IN  first({i \in 1..Len(s) : s[i] \in seps})

\* re.split('[seps]+', s): cut at every maximal run of separators
RECURSIVE splitruns(_, _)
splitruns(s, seps) ==
    LET after(rest) == IF rest = {} THEN <<<<>>>>
                       ELSE splitruns(SubSeq(s, Min(rest), Len(s)), seps)
        at(i) == <<SubSeq(s, 1, i - 1)>>
                 \o after({j \in i..Len(s) : s[j] \notin seps})
        first(cut) == IF cut = {} THEN <<s>> ELSE at(Min(cut))
    IN  first({i \in 1..Len(s) : s[i] \in seps})

\* s.isspace(): at least one character and all of them whitespace
isspace(s) == Len(s) > 0 /\ \A i \in 1..Len(s) : s[i] \in Whitespace

\* s.endswith(t)
endswith(s, t) ==
    Len(t) <= Len(s) /\ SubSeq(s, Len(s) - Len(t) + 1, Len(s)) = t

\* t in s, for texts: t is a substring of s (the empty text is in every text)
contains(s, t) ==
    \E i \in 0..(Len(s) - Len(t)) : SubSeq(s, i + 1, i + Len(t)) = t

\* s.lower()
LowerSeq == <<"a","b","c","d","e","f","g","h","i","j","k","l","m",
              "n","o","p","q","r","s","t","u","v","w","x","y","z">>

UpperSeq == <<"A","B","C","D","E","F","G","H","I","J","K","L","M",
              "N","O","P","Q","R","S","T","U","V","W","X","Y","Z">>

lower(s) ==
    [i \in 1..Len(s) |->
        IF s[i] \in Upper
        THEN LowerSeq[CHOOSE k \in 1..26 : UpperSeq[k] = s[i]]
        ELSE s[i]]


(***************************************************************************)
(* Value trees: scalars, lists and ordered dicts, tagged with their type   *)
(***************************************************************************)

NoneNode == [t |-> "none", v |-> <<>>]

IntNode(n) == [t |-> "int", v |-> n]

\* a float: sign, integer part and the fraction's digits without trailing
\* zeros (zero has no sign)
FloatNode(f) == [t |-> "float", v |-> f]

StrNode(s) == [t |-> "str", v |-> s]

BoolNode(b) == [t |-> "bool", v |-> b]

\* a Python list (also used for the tuples the code builds)
ListNode(items) == [t |-> "list", v |-> items]

\* a collections.OrderedDict: the <<key, value>> pairs in insertion order
DictNode(pairs) == [t |-> "dict", v |-> pairs]

Zero == [neg |-> FALSE, ip |-> 0, frac |-> <<>>]

\* bool(x) of a value tree
NodeTruthy(x) ==
    CASE x.t = "none"  -> FALSE
      [] x.t = "int"   -> x.v # 0
      [] x.t = "float" -> x.v # Zero
      [] x.t = "bool"  -> x.v
      [] OTHER         -> x.v # <<>>

\* the number a numeric value stands for (True is 1, False is 0)
NumVal(x) ==
    CASE x.t = "int"   -> [neg |-> x.v < 0,
                           ip |-> IF x.v < 0 THEN 0 - x.v ELSE x.v,
                           frac |-> <<>>]
      [] x.t = "bool"  -> [neg |-> FALSE, ip |-> IF x.v THEN 1 ELSE 0, frac |-> <<>>]
      [] x.t = "float" -> x.v

\* a == b of two value trees: numbers compare by value whatever their type,
\* anything else only with its own type
PyEq(a, b) ==
    IF a.t \in {"int", "float", "bool"} /\ b.t \in {"int", "float", "bool"}
    THEN NumVal(a) = NumVal(b)
    ELSE a.t = b.t /\ a.v = b.v

\* key in d
DictHas(d, k) == \E i \in 1..Len(d.v) : d.v[i][1] = k

\* d[k], for a key that is in d
DictGet(d, k) == d.v[CHOOSE i \in 1..Len(d.v) : d.v[i][1] = k][2]

\* d[k] = val: a present key keeps its place, a new key goes last
DictSet(d, k, val) ==
    IF DictHas(d, k)
    THEN DictNode([i \in 1..Len(d.v) |->
                     IF d.v[i][1] = k THEN <<k, val>> ELSE d.v[i]])
    ELSE DictNode(Append(d.v, <<k, val>>))

(***************************************************************************)
(* Numbers                                                                 *)
(***************************************************************************)

DigitVal(c) == (CHOOSE i \in 1..10 : DigitSeq[i] = c) - 1

\* the number a sequence of decimal digits spells
RECURSIVE DigitsToNat(_)
DigitsToNat(ds) ==
    IF ds = <<>> THEN 0
    ELSE DigitsToNat(SubSeq(ds, 1, Len(ds) - 1)) * 10 + DigitVal(ds[Len(ds)])

RECURSIVE NatToText(_)
NatToText(n) ==
    IF n < 10 THEN <<DigitSeq[n + 1]>>
    ELSE NatToText(n \div 10) \o <<DigitSeq[(n % 10) + 1]>>

\* str(n) of an int
IntToText(n) == IF n < 0 THEN <<"-">> \o NatToText(0 - n) ELSE NatToText(n)

\* float(text): surrounding whitespace is ignored; an optional sign, then
\* digits with at most one '.', at least one digit in all.  Anything else
\* raises ValueError.  (The exponent form and the spellings inf and nan,
\* which float() also reads, are not used by the texts of this model.)
float(text) ==
    LET val(minus, ip, frac) ==
            [neg |-> minus /\ (ip # 0 \/ frac # <<>>), ip |-> ip, frac |-> frac]
        significant(fr, sig) == IF sig = {} THEN <<>> ELSE SubSeq(fr, 1, Max(sig))
        fraction(fr) == significant(fr, {i \in 1..Len(fr) : fr[i] # "0"})
        parts(minus, body, dot) ==
            val(minus, DigitsToNat(SubSeq(body, 1, dot - 1)),
                fraction(SubSeq(body, dot + 1, Len(body))))
        number(minus, body, dots) ==
            IF /\ \A i \in 1..Len(body) : body[i] \in Digits \cup {"."}
               /\ Cardinality(dots) <= 1
               /\ \E i \in 1..Len(body) : body[i] \in Digits
            THEN [err |-> "none",
                  val |-> parts(minus, body,
                                IF dots = {} THEN Len(body) + 1 ELSE Min(dots))]
            ELSE [err |-> "ValueError", val |-> Zero]
        unsigned(minus, body) ==
            number(minus, body, {i \in 1..Len(body) : body[i] = "."})
        signed(s) ==
            IF Len(s) > 0 /\ s[1] \in {"+", "-"}
            THEN unsigned(s[1] = "-", SubSeq(s, 2, Len(s)))
            ELSE unsigned(FALSE, s)
    IN  signed(strip(text))

\* int(f) of a float: truncation towards zero
int(f) == IF f.neg THEN 0 - f.ip ELSE f.ip

(***************************************************************************)
(* Module-level helpers of proton.py                                       *)
(***************************************************************************)

T_int == <<"i","n","t">>

T_double == <<"d","o","u","b","l","e">>

T_string == <<"s","t","r","i","n","g">>

T_bool == <<"b","o","o","l">>

Ok(x) == x.err = "none"

\* re.match('^_|[a-zA-Z]\w+$', name): the pattern is the alternation of
\* '^_' (the name starts with an underscore) and '[a-zA-Z]\w+$' (a letter,
\* then one or more word characters up to the end, or up to a final newline)
identifiermatch(name) ==
    LET n == Len(name)
    IN  \/ n >= 1 /\ name[1] = "_"
        \/ /\ n >= 2
           /\ name[1] \in Letters
           /\ \E e \in 2..n :
                /\ \A k \in 2..e : name[k] \in WordChars
                /\ e = n \/ (e = n - 1 /\ name[n] = "\n")

\* fillvalue(parent, name, value, isschema): the parent with the value in it,
\* or the error raised
fillvalue(parent, name, value, isschema) ==
    IF parent.t = "list"
    THEN [err |-> "none", parent |-> ListNode(Append(parent.v, value))]
    ELSE IF isschema /\ ~identifiermatch(name)
         THEN [err |-> "IllegalIdentifier", parent |-> parent]
         ELSE [err |-> "none", parent |-> DictSet(parent, name, value)]

\* getindex(infos, name): the 0-based index of the first item equal to name
getindex(infos, name) ==
    LET first(at) == IF at = {} THEN -1 ELSE Min(at) - 1
    IN  first({i \in 1..Len(infos) : infos[i].t = "str" /\ infos[i].v = name})

\* getscemainfo(typename, description); typename is the schema of the type
\* (the name of a simple type, as a str, or the tree of a list or object)
getscemainfo(typename, description) ==
    IF NodeTruthy(description)
    THEN ListNode(<<typename, description>>)
    ELSE ListNode(<<typename>>)

\* getexportmark(sheetName): re.search('\|(_|[a-zA-Z]\w+)', sheetName).
\* At the first '|' that is followed by '_', or by a letter and at least one
\* word character: the '_' alone, or the letter with all the word
\* characters that follow it.  found is FALSE when the function returns False.
getexportmark(sheetName) ==
    LET n == Len(sheetName)
        at(i) == /\ sheetName[i] = "|"
                 /\ i + 1 <= n
                 /\ \/ sheetName[i + 1] = "_"
                    \/ /\ sheetName[i + 1] \in Letters
                       /\ i + 2 <= n
                       /\ sheetName[i + 2] \in WordChars
        run(i0) == {e \in (i0 + 2)..n :
                      \A k \in (i0 + 2)..e : sheetName[k] \in WordChars}
        group(i0) ==
            IF sheetName[i0 + 1] = "_" THEN [found |-> TRUE, mark |-> <<"_">>]
            ELSE [found |-> TRUE, mark |-> SubSeq(sheetName, i0 + 1, Max(run(i0)))]
        search(starts) == IF starts = {} THEN [found |-> FALSE, mark |-> <<>>]
                          ELSE group(Min(starts))
    IN  search({i \in 1..n : at(i)})

\* issignmatch(signarg, sign): signarg is None or the text of option -s;
\* 's in signarg' on a text is the substring test
issignmatch(signarg, sign) ==
    IF signarg = None THEN TRUE
    ELSE LET some(tokens) == \E i \in 1..Len(tokens) : contains(signarg, tokens[i])
         IN  some(split(sign, {"/", "\\", ",", " ", ":"}))

\* isoutofdate with >= in place of >: equal times count as out of date
isoutofdate_equal(srcmtime, tar) == ~tar.exists \/ srcmtime >= tar.mtime

\* isoutofdate(srcfile, tarfile), on what os.path reports of the two files:
\* the source's modification time and the target's state [exists, mtime]
isoutofdate(srcmtime, tar) == ~tar.exists \/ srcmtime > tar.mtime

\* gerexportfilename(root, format_, folder)
gerexportfilename(root, format_, folder) ==
    LET filename == root \o <<".">> \o format_
    IN  IF folder = <<>> \/ folder[Len(folder)] = "/" THEN folder \o filename
        ELSE folder \o <<"/">> \o filename

\* splitspace(s)
splitspace(s) == splitruns(strip(s), Whitespace)

(***************************************************************************)
(* Exporter: types and binding                                             *)
(*                                                                         *)
(* A function that can raise returns a record whose err field is "none"    *)
(* or names the error.  self is the part of the Exporter the binding reads:*)
(* [path, sheetname, rowindex, colindex, attrs], attrs being the set of    *)
(* the attributes among rowindex and colindex that have been assigned.     *)
(***************************************************************************)

\* re.search('(int|string)[<whitespace>]*\((\S+)\.(\S+)\)', type_): the
\* leftmost match; both groups are greedy, so the mark ends at the last '.'
\* and the field at the last ')' that leave a match
bindsearch(type_) ==
    LET n == Len(type_)
        kw(i) == IF i + 2 <= n /\ SubSeq(type_, i, i + 2) = T_int THEN 3
                 ELSE IF i + 5 <= n /\ SubSeq(type_, i, i + 5) = T_string THEN 6
                 ELSE 0
        \* the index of the '(' that follows the keyword of length k at i, or 0
        open(k, after) ==
            IF k = 0 \/ after = {} THEN 0
            ELSE IF type_[Min(after)] = "(" THEN Min(after) ELSE 0
        paren(i, k) == open(k, {j \in (i + k)..n : type_[j] \notin Whitespace})
        nonspace(a, b) == \A k \in a..b : type_[k] \notin Whitespace
        fieldends(e2) ==
            {e3 \in (e2 + 2)..(n - 1) : nonspace(e2 + 2, e3) /\ type_[e3 + 1] = ")"}
        markends(p) ==
            {e2 \in (p + 1)..(n - 3) :
                nonspace(p + 1, e2) /\ type_[e2 + 1] = "." /\ fieldends(e2) # {}}
        hit(p) == p # 0 /\ markends(p) # {}
        groups(i0, k, p, e2) ==
            [found |-> TRUE,
             typename |-> SubSeq(type_, i0, i0 + k - 1),
             mark |-> SubSeq(type_, p + 1, e2),
             field |-> SubSeq(type_, e2 + 2, Max(fieldends(e2)))]
        from(i0, k, p) == groups(i0, k, p, Max(markends(p)))
        at(i0, k) == from(i0, k, paren(i0, k))
        search(starts) ==
            IF starts = {}
            THEN [found |-> FALSE, typename |-> <<>>, mark |-> <<>>, field |-> <<>>]
            ELSE at(Min(starts), kw(Min(starts)))
    IN  search({i \in 1..n : hit(paren(i, kw(i)))})

\* Exporter.gettype(type_): kind is "list", "obj", "base" (typename is the
\* keyword returned) or "bind" (a BindType with typename, mark and field)
gettype(type_) ==
    LET n == Len(type_)
        result(kind, typename) ==
            [err |-> "none", kind |-> kind, typename |-> typename,
             mark |-> <<>>, field |-> <<>>]
        bound(b) ==
            IF b.found
            THEN [err |-> "none", kind |-> "bind", typename |-> b.typename,
                  mark |-> b.mark, field |-> b.field]
            ELSE [err |-> "IllegalType", kind |-> "", typename |-> <<>>,
                  mark |-> <<>>, field |-> <<>>]
    IN  IF n < 2
        THEN [err |-> "IndexError", kind |-> "", typename |-> <<>>,
              mark |-> <<>>, field |-> <<>>]
        ELSE IF type_[n - 1] = "[" /\ type_[n] = "]" THEN result("list", <<>>)
        ELSE IF type_[1] = "{" /\ type_[n] = "}" THEN result("obj", <<>>)
        ELSE IF type_ \in {T_int, T_double, T_string, T_bool}
             THEN result("base", type_)
        ELSE bound(bindsearch(type_))

\* Exporter.addconstraint(mark, field, valueinfo): the Constraint appended to
\* self.constraints; reading an attribute that was never assigned raises
\* AttributeError
addconstraint(self, mark, field, valueinfo) ==
    [err |-> IF {"rowindex", "colindex"} \subseteq self.attrs THEN "none"
             ELSE "AttributeError",
     c |-> [mark |-> mark, field |-> field, valueinfo |-> valueinfo,
            path |-> self.path, sheetname |-> self.sheetname,
            rowindex |-> self.rowindex, colindex |-> self.colindex]]

\* the value of a cell text under a simple type (buildbasexpress, data mode)
coerce(typename, value) ==
    LET conv(f, low) ==
          CASE typename = T_int ->
                 IF Ok(f) THEN [err |-> "none", val |-> IntNode(int(f.val))]
                 ELSE [err |-> "IllegalNumber", val |-> NoneNode]
            [] typename = T_double ->
                 IF Ok(f) THEN [err |-> "none", val |-> FloatNode(f.val)]
                 ELSE [err |-> "IllegalNumber", val |-> NoneNode]
            [] typename = T_string ->
                 IF endswith(value, <<".", "0">>) /\ Ok(f)
                 THEN [err |-> "none", val |-> StrNode(IntToText(int(f.val)))]
                 ELSE [err |-> "none", val |-> StrNode(value)]
            [] typename = T_bool ->
                 IF Ok(f) THEN [err |-> "none", val |-> BoolNode(int(f.val) # 0)]
                 ELSE IF low \in {<<"f","a","l","s","e">>, <<"n","o">>, <<"o","f","f">>}
                      THEN [err |-> "none", val |-> BoolNode(FALSE)]
                 ELSE IF low \in {<<"t","r","u","e">>, <<"y","e","s">>, <<"o","n">>}
                      THEN [err |-> "none", val |-> BoolNode(TRUE)]
                 ELSE [err |-> "IllegalBoolValue", val |-> NoneNode]
    IN  conv(float(value), lower(value))

Raise(e, parent) == [err |-> e, parent |-> parent, cons |-> <<>>]

RECURSIVE buildexpress(_, _, _, _, _, _)
RECURSIVE buildlistitems(_, _, _, _, _, _)
RECURSIVE buildobjfields(_, _, _, _, _, _, _)

\* Exporter.buildbasexpress(parent, type_, name, value, isschema): the
\* parent filled and the constraints appended.  value is a str in data mode
\* and the description (or None) in schema mode.
buildbasexpress(self, parent, type_, name, value, isschema) ==
    LET bind(typename, f, a) ==
            IF ~Ok(f) THEN Raise(f.err, parent)
            ELSE IF ~isschema /\ typename.kind = "bind"
                 THEN [err |-> a.err, parent |-> f.parent,
                       cons |-> IF Ok(a) THEN <<a.c>> ELSE <<>>]
            ELSE [err |-> "none", parent |-> f.parent, cons |-> <<>>]
        fill(typename, co) ==
            IF ~isschema /\ ~Ok(co) THEN Raise(co.err, parent)
            ELSE bind(typename,
                      fillvalue(parent, name,
                                IF isschema
                                THEN getscemainfo(StrNode(typename.typename), value)
                                ELSE co.val,
                                isschema),
                      addconstraint(self, typename.mark, typename.field,
                                    <<type_, name, co.val>>))
        typed(typename) ==
            IF ~Ok(typename) THEN Raise(typename.err, parent)
            ELSE fill(typename, coerce(typename.typename, value.v))
    IN  typed(gettype(type_))

\* Exporter.buildlistexpress(parent, type_, name, value, isschema)
buildlistexpress(self, parent, type_, name, value, isschema) ==
    LET basetype == SubSeq(type_, 1, Len(type_) - 2)
        filled(r, f) ==
            IF ~Ok(f) THEN Raise(f.err, parent)
            ELSE [err |-> "none", parent |-> f.parent, cons |-> r.cons]
        built(r) ==
            IF ~Ok(r) THEN Raise(r.err, parent)
            ELSE filled(r, fillvalue(parent, name \o <<"s">>,
                                     IF isschema
                                     THEN getscemainfo(r.parent.v[1], value)
                                     ELSE r.parent,
                                     isschema))
    IN  built(IF isschema
              THEN buildexpress(self, ListNode(<<>>), basetype, name, NoneNode, TRUE)
              ELSE buildlistitems(self, ListNode(<<>>), basetype, name,
                                  split(stripchars(value.v, {"[", "]"}), {","}),
                                  <<>>))

\* the loop of buildlistexpress over the tokens of the value
buildlistitems(self, list_, basetype, name, valuelist, cons) ==
    LET v == Head(valuelist)
        bound(r) ==
            IF ~Ok(r) THEN Raise(r.err, list_)
            ELSE buildlistitems(self, r.parent, basetype, name, Tail(valuelist),
                                cons \o r.cons)
    IN  IF valuelist = <<>> THEN [err |-> "none", parent |-> list_, cons |-> cons]
        ELSE IF isspace(v)
             THEN buildlistitems(self, list_, basetype, name, Tail(valuelist), cons)
        ELSE bound(buildexpress(self, list_, basetype, name, StrNode(v), FALSE))

\* Exporter.buildobjexpress(parent, type_, name, value, isschema)
buildobjexpress(self, parent, type_, name, value, isschema) ==
    LET filled(r, f) ==
            IF ~Ok(f) THEN Raise(f.err, parent)
            ELSE [err |-> "none", parent |-> f.parent, cons |-> r.cons]
        built(r) ==
            IF ~Ok(r) THEN Raise(r.err, parent)
            ELSE filled(r, fillvalue(parent, name,
                                     IF isschema THEN getscemainfo(r.parent, value)
                                     ELSE r.parent,
                                     isschema))
    IN  built(buildobjfields(self, DictNode(<<>>),
                             split(stripchars(type_, {"{", "}"}), {":"}),
                             IF isschema THEN <<>>
                             ELSE split(stripchars(value.v, {"{", "}"}), {":"}),
                             1, isschema, <<>>))

\* the loops of buildobjexpress over the fields of the type, from field i
buildobjfields(self, obj, fieldnamestypes, fieldValues, i, isschema, cons) ==
    LET pair == splitspace(fieldnamestypes[i])
        bound(r) ==
            IF ~Ok(r) THEN Raise(r.err, obj)
            ELSE buildobjfields(self, r.parent, fieldnamestypes, fieldValues, i + 1,
                                isschema, cons \o r.cons)
    IN  IF i > Len(fieldnamestypes)
        THEN [err |-> "none", parent |-> obj, cons |-> cons]
        ELSE IF ~isschema /\ i > Len(fieldValues)
             THEN buildobjfields(self, obj, fieldnamestypes, fieldValues, i + 1,
                                 isschema, cons)
        ELSE IF Len(pair) # 2 THEN Raise("UnpackError", obj)
        ELSE bound(buildexpress(self, obj, pair[1], pair[2],
                                IF isschema THEN NoneNode
                                ELSE StrNode(fieldValues[i]),
                                isschema))

\* Exporter.buildexpress(parent, type_, name, value, isschema)
buildexpress(self, parent, type_, name, value, isschema) ==
    LET typename == gettype(type_)
    IN  IF ~Ok(typename) THEN Raise(typename.err, parent)
        ELSE IF typename.kind = "list"
             THEN buildlistexpress(self, parent, type_, name, value, isschema)
        ELSE IF typename.kind = "obj"
             THEN buildobjexpress(self, parent, type_, name, value, isschema)
        ELSE buildbasexpress(self, parent, type_, name, value, isschema)

(***************************************************************************)
(* Exporter: sheets                                                        *)
(*                                                                         *)
(* A sheet is [name, rows]: its name and its rows, each row the values of  *)
(* its cells as xlrd gives them (a str, '' for an empty cell, or a float   *)
(* for a numeric cell); all rows have sheet.ncols cells.                   *)
(***************************************************************************)

nrows(sheet) == Len(sheet.rows)

ncols(sheet) == IF sheet.rows = <<>> THEN 0 ELSE Len(sheet.rows[1])

\* sheet.row_values(rowx), rowx from 0
row_values(sheet, rowx) == sheet.rows[rowx + 1]

\* str(x) of a cell value: a float prints with its fraction, '.0' when it
\* has none
str(x) ==
    IF x.t = "str" THEN x.v
    ELSE (IF x.v.neg THEN <<"-">> ELSE <<>>) \o NatToText(x.v.ip) \o <<".">>
         \o (IF x.v.frac = <<>> THEN <<"0">> ELSE x.v.frac)

\* seq[i] with Python's index i (from 0; a negative index counts from the end)
pyindex(seq, i) == IF i < 0 THEN seq[Len(seq) + i + 1] ELSE seq[i + 1]

\* Exporter.configsheettitles
configsheettitles ==
    << <<"n","a","m","e">>, <<"v","a","l","u","e">>, <<"t","y","p","e">>,
       <<"s","i","g","n">>, <<"d","e","s","c","r","i","p","t","i","o","n">> >>

\* Exporter.spacemaxrowcount
spacemaxrowcount == 3

\* Exporter.getconfigsheetfinfo(sheet): isconfig is FALSE for None, and
\* titleindexs is the tuple returned otherwise
getconfigsheetfinfo(sheet) ==
    LET found(index) ==
            [err |-> "none",
             isconfig |-> index[1] # -1 /\ index[2] # -1 /\ index[3] # -1,
             titleindexs |-> index]
        indexes(titles) ==
            found([k \in 1..5 |-> getindex(titles, configsheettitles[k])])
    IN  IF nrows(sheet) = 0
        THEN [err |-> "IndexError", isconfig |-> FALSE, titleindexs |-> <<>>]
        ELSE indexes(row_values(sheet, 0))

\* the titleinfos of exportitemsheet: (type_, name, signmatch) of each column
titleinfos(context, sheet) ==
    [c \in 1..ncols(sheet) |->
        [type_ |-> strip(str(row_values(sheet, 1)[c])),
         name |-> strip(str(row_values(sheet, 2)[c])),
         signmatch |-> issignmatch(context.sign, strip(str(row_values(sheet, 3)[c])))]]

\* the title loop of exportitemsheet from column c (from 1): the schema tree
\* the title loop binding every column with a type and a name, whatever
\* its sign
RECURSIVE itemschema_anysign(_, _, _, _, _, _)
itemschema_anysign(self, context, sheet, titles, c, schemaobj) ==
    LET ti == titles[c]
        bound(r) ==
            IF Ok(r)
            THEN itemschema_anysign(self, context, sheet, titles, c + 1, r.parent)
            ELSE Raise(r.err, schemaobj)
    IN  IF c > Len(titles) THEN [err |-> "none", parent |-> schemaobj, cons |-> <<>>]
        ELSE IF Truthy(context.codegenerator) /\ ti.type_ # <<>> /\ ti.name # <<>>
             THEN bound(buildexpress(self, schemaobj, ti.type_, ti.name,
                                     row_values(sheet, 0)[c], TRUE))
        ELSE itemschema_anysign(self, context, sheet, titles, c + 1, schemaobj)

RECURSIVE itemschema(_, _, _, _, _, _)
itemschema(self, context, sheet, titles, c, schemaobj) ==
    LET ti == titles[c]
        bound(r) ==
            IF Ok(r) THEN itemschema(self, context, sheet, titles, c + 1, r.parent)
            ELSE Raise(r.err, schemaobj)
    IN  IF c > Len(titles) THEN [err |-> "none", parent |-> schemaobj, cons |-> <<>>]
        ELSE IF Truthy(context.codegenerator)
                /\ ti.type_ # <<>> /\ ti.name # <<>> /\ ti.signmatch
             THEN bound(buildexpress(self, schemaobj, ti.type_, ti.name,
                                     row_values(sheet, 0)[c], TRUE))
        ELSE itemschema(self, context, sheet, titles, c + 1, schemaobj)

\* the column loop of exportitemsheet on one row, from column c (from 1).
\* w is the state of the walk: [err, self, spacerowcount, item, list_, cons,
\* stop]
RECURSIVE itemcols(_, _, _, _)
itemcols(titles, row, c, w) ==
    LET ti == titles[c]
        value == strip(str(row[c]))
        w1 == [w EXCEPT !.self.colindex = c - 1,
                        !.self.attrs = @ \cup {"colindex"}]
        bound(r) ==
            IF Ok(r) THEN itemcols(titles, row, c + 1,
                                   [w1 EXCEPT !.item = r.parent,
                                              !.cons = @ \o r.cons,
                                              !.spacerowcount = 0])
            ELSE [w1 EXCEPT !.err = r.err]
    IN  IF c > Len(titles) THEN w
        ELSE IF ti.type_ # <<>> /\ ti.name # <<>> /\ value # <<>>
             THEN IF ti.signmatch
                  THEN bound(buildexpress(w1.self, w1.item, ti.type_, ti.name,
                                          StrNode(value), FALSE))
                  ELSE itemcols(titles, row, c + 1, [w1 EXCEPT !.spacerowcount = 0])
        ELSE itemcols(titles, row, c + 1, w1)

\* the body of the row loop appending the item of every row it binds
itemrow_appendempty(titles, sheet, rowindex, w) ==
    LET row == row_values(sheet, rowindex)
        firsttext == strip(str(row[1]))
        w1 == [w EXCEPT !.self.rowindex = rowindex,
                        !.self.attrs = @ \cup {"rowindex"},
                        !.item = DictNode(<<>>)]
        walked(w2) ==
            IF ~Ok(w2) THEN w2
            ELSE [w2 EXCEPT !.list_ = Append(@, w2.item)]
    IN  IF firsttext = <<>>
        THEN [w1 EXCEPT !.spacerowcount = @ + 1,
                        !.stop = w.spacerowcount + 1 >= spacemaxrowcount]
        ELSE IF firsttext[1] = "#" THEN w1
        ELSE walked(itemcols(titles, row, 1, w1))

\* the body of the row loop with a comment row that empties the counter
itemrow_commentreset(titles, sheet, rowindex, w) ==
    LET row == row_values(sheet, rowindex)
        firsttext == strip(str(row[1]))
        w1 == [w EXCEPT !.self.rowindex = rowindex,
                        !.self.attrs = @ \cup {"rowindex"},
                        !.item = DictNode(<<>>)]
        walked(w2) ==
            IF ~Ok(w2) THEN w2
            ELSE IF NodeTruthy(w2.item)
                 THEN [w2 EXCEPT !.list_ = Append(@, w2.item)]
                 ELSE w2
    IN  IF firsttext = <<>>
        THEN [w1 EXCEPT !.spacerowcount = @ + 1,
                        !.stop = w.spacerowcount + 1 >= spacemaxrowcount]
        ELSE IF firsttext[1] = "#" THEN [w1 EXCEPT !.spacerowcount = 0]
        ELSE walked(itemcols(titles, row, 1, w1))

\* one turn of the row loop of exportitemsheet, on row rowindex (from 0)
itemrow(titles, sheet, rowindex, w) ==
    LET row == row_values(sheet, rowindex)
        firsttext == strip(str(row[1]))
        w1 == [w EXCEPT !.self.rowindex = rowindex,
                        !.self.attrs = @ \cup {"rowindex"},
                        !.item = DictNode(<<>>)]
        walked(w2) ==
            IF ~Ok(w2) THEN w2
            ELSE IF NodeTruthy(w2.item)
                 THEN [w2 EXCEPT !.list_ = Append(@, w2.item)]
                 ELSE w2
    IN  IF firsttext = <<>>
        THEN [w1 EXCEPT !.spacerowcount = @ + 1,
                        !.stop = w.spacerowcount + 1 >= spacemaxrowcount]
        ELSE IF firsttext[1] = "#" THEN w1
        ELSE walked(itemcols(titles, row, 1, w1))

\* the state of the walk before the first row
itemwalk0(self) ==
    [err |-> "none", self |-> self, spacerowcount |-> 0, item |-> DictNode(<<>>),
     list_ |-> <<>>, cons |-> <<>>, stop |-> FALSE]

\* the row loop of exportitemsheet from row rowindex
RECURSIVE itemrows(_, _, _, _)
itemrows(titles, sheet, rowindex, w) ==
    IF rowindex >= nrows(sheet) \/ w.stop \/ ~Ok(w) THEN w
    ELSE itemrows(titles, sheet, rowindex + 1, itemrow(titles, sheet, rowindex, w))

\* Exporter.exportitemsheet(sheet): the tuple (schemaobj, list_) as obj, the
\* constraints appended to self.constraints, and self as the call leaves it
exportitemsheet(self, context, sheet) ==
    LET result(sch, w) ==
            IF ~Ok(sch)
            THEN [err |-> sch.err, obj |-> NoneNode, cons |-> <<>>, self |-> self]
            ELSE [err |-> w.err,
                  obj |-> ListNode(<<sch.parent, ListNode(w.list_)>>),
                  cons |-> w.cons, self |-> w.self]
    IN  IF nrows(sheet) < 4
        THEN [err |-> "IndexError", obj |-> NoneNode, cons |-> <<>>, self |-> self]
        ELSE result(itemschema(self, context, sheet, titleinfos(context, sheet), 1,
                               DictNode(<<>>)),
                    itemrows(titleinfos(context, sheet), sheet, 4, itemwalk0(self)))

\* one turn of the row loop of exportconfigsheet, on row rowindex; w is
\* [err, self, spacerowcount, schemaobj, obj, cons, stop]
configrow(context, sheet, titleindexs, rowindex, w) ==
    LET row == row_values(sheet, rowindex)
        name == strip(str(pyindex(row, titleindexs[1])))
        value == strip(str(pyindex(row, titleindexs[2])))
        type_ == strip(str(pyindex(row, titleindexs[3])))
        signindex == titleindexs[4]
        description == strip(str(pyindex(row, titleindexs[5])))
        w1 == [w EXCEPT !.self.rowindex = rowindex,
                        !.self.attrs = @ \cup {"rowindex"}]
        \* s is the outcome of the schema call and d of the data call
        bound(s, d) ==
            IF Truthy(context.codegenerator) /\ ~Ok(s)
            THEN [w1 EXCEPT !.err = s.err]
            ELSE IF value = <<>>
            THEN [w1 EXCEPT !.schemaobj = IF Truthy(context.codegenerator)
                                          THEN s.parent ELSE @,
                            !.spacerowcount = 0]
            ELSE IF ~Ok(d) THEN [w1 EXCEPT !.err = d.err]
            ELSE [w1 EXCEPT !.schemaobj = IF Truthy(context.codegenerator)
                                          THEN s.parent ELSE @,
                            !.obj = d.parent,
                            !.cons = @ \o d.cons,
                            !.spacerowcount = 0]
    IN  IF signindex > 0
           /\ ~issignmatch(context.sign, strip(str(pyindex(row, signindex))))
        THEN w1
        ELSE IF name = <<>> /\ value = <<>> /\ type_ = <<>>
        THEN [w1 EXCEPT !.spacerowcount = @ + 1,
                        !.stop = w.spacerowcount + 1 >= spacemaxrowcount]
        ELSE IF name # <<>> /\ type_ # <<>>
        THEN IF name[1] # "#"
             THEN bound(buildexpress(w1.self, w.schemaobj, type_, name,
                                     StrNode(description), TRUE),
                        buildexpress(w1.self, w.obj, type_, name, StrNode(value),
                                     FALSE))
             ELSE [w1 EXCEPT !.spacerowcount = 0]
        ELSE w1

\* the row loop of exportconfigsheet from row rowindex
RECURSIVE configrows(_, _, _, _, _)
configrows(context, sheet, titleindexs, rowindex, w) ==
    IF rowindex >= nrows(sheet) \/ w.stop \/ ~Ok(w) THEN w
    ELSE configrows(context, sheet, titleindexs, rowindex + 1,
                    configrow(context, sheet, titleindexs, rowindex, w))

\* Exporter.exportconfigsheet(sheet, titleindexs): as exportitemsheet
exportconfigsheet(self, context, sheet, titleindexs) ==
    LET result(w) ==
            [err |-> w.err, obj |-> ListNode(<<w.schemaobj, w.obj>>),
             cons |-> w.cons, self |-> w.self]
    IN  result(configrows(context, sheet, titleindexs, 1,
                          [err |-> "none", self |-> self, spacerowcount |-> 0,
                           schemaobj |-> DictNode(<<>>), obj |-> DictNode(<<>>),
                           cons |-> <<>>, stop |-> FALSE]))

(***************************************************************************)
(* Exporter: records, constraints and files                                *)
(***************************************************************************)

\* setobj marking the record for saves when it is given trees
setobj_needsave(r, obj) ==
    [r EXCEPT !.schema = IF NodeTruthy(obj) THEN obj.v[1] ELSE NoneNode,
              !.obj    = IF NodeTruthy(obj) THEN obj.v[2] ELSE NoneNode,
              !.needsave = @ \/ NodeTruthy(obj)]

\* Record.setobj(obj): obj is the tuple (schema, obj) or None
setobj(r, obj) ==
    [r EXCEPT !.schema = IF NodeTruthy(obj) THEN obj.v[1] ELSE NoneNode,
              !.obj    = IF NodeTruthy(obj) THEN obj.v[2] ELSE NoneNode]

\* Record(path, sheet, exportfile, root, item, obj, exportmark)
Record(path, sheet, exportfile, root, item, obj, exportmark) ==
    setobj([path |-> path, sheet |-> sheet, exportfile |-> exportfile,
            root |-> root, item |-> item, schema |-> NoneNode, obj |-> NoneNode,
            exportmark |-> exportmark, needsave |-> FALSE], obj)

\* Exporter.addrecord(path, sheet, exportfile, root, item, obj, exportmark):
\* self.records after the call
addrecord(records, path, sheet, exportfile, root, item, obj, exportmark) ==
    Append(records,
           [Record(path, sheet, exportfile, root, item, obj, exportmark)
               EXCEPT !.needsave = NodeTruthy(obj)])

\* checksheetname without its test: no root is taken
checksheetname_unchecked(records, path, sheetname, root) == "none"

\* Exporter.checksheetname(path, sheetname, root): the error raised, if any
checksheetname(records, path, sheetname, root) ==
    IF \E i \in 1..Len(records) : records[i].root = root
    THEN "DuplicateRoot" ELSE "none"

\* checkpath without its test: no path is taken
checkpath_unchecked(records, path) == "none"

\* Exporter.checkpath(path): the error raised, if any
checkpath(records, path) ==
    IF \E i \in 1..Len(records) : records[i].path = path
    THEN "DuplicatePath" ELSE "none"

\* the root and the item of a sheet with an export mark (Exporter.export)
rootof(context, exportmark, isconfig) ==
    LET extension == IF Truthy(context.extension) THEN context.extension ELSE <<>>
    IN  IF ~isconfig THEN exportmark \o <<"s">> \o extension
        ELSE exportmark \o extension

itemof(exportmark, isconfig) == IF ~isconfig THEN exportmark ELSE None

\* the search of checkconstraint in the items of a record for one whose
\* field equals v: i[c.field] raises KeyError on the first item without the
\* field, if no item before it matched
constraintsearch(obj, field, v) ==
    LET first(lacking, equal) ==
            IF lacking \cup equal = {} THEN "ConstraintFieldNotFound"
            ELSE IF Min(lacking \cup equal) \in lacking THEN "KeyError"
            ELSE "none"
    IN  first({i \in 1..Len(obj.v) : ~DictHas(obj.v[i], field)},
              {i \in 1..Len(obj.v) :
                 DictHas(obj.v[i], field) /\ PyEq(DictGet(obj.v[i], field), v)})

\* checkconstraint passing over a constraint whose mark no record holds
checkconstraint_markless(self, context, records, constraints, c) ==
    LET found == {i \in 1..Len(records) : records[i].item = c.mark}
        k == Min(found)
        r == records[k]
        unchanged == [err |-> "none", records |-> records,
                      constraints |-> constraints, self |-> self, target |-> 0,
                      rebuilt |-> 0]
        searched(r1, cons, slf, rebuilt) ==
            [err |-> constraintsearch(r1.obj, c.field, c.valueinfo[3]),
             records |-> [records EXCEPT ![k] = r1],
             constraints |-> cons, self |-> slf, target |-> k, rebuilt |-> rebuilt]
        loaded(x) ==
            IF ~Ok(x)
            THEN [unchanged EXCEPT !.err = x.err, !.target = k, !.rebuilt = k]
            ELSE searched(setobj(r, x.obj), constraints \o x.cons, x.self, k)
    IN  IF found = {} THEN unchanged
        ELSE IF ~NodeTruthy(r.obj)
             THEN loaded(exportitemsheet(self, context, r.sheet))
        ELSE searched(r, constraints, self, 0)

\* a turn that searches the rebuilt items but leaves the record without them
checkconstraint_forgetful(self, context, records, constraints, c) ==
    LET found == {i \in 1..Len(records) : records[i].item = c.mark}
        k == Min(found)
        r == records[k]
        unchanged == [err |-> "none", records |-> records,
                      constraints |-> constraints, self |-> self, target |-> 0,
                      rebuilt |-> 0]
        searched(r1, kept, cons, slf, rebuilt) ==
            [err |-> constraintsearch(r1.obj, c.field, c.valueinfo[3]),
             records |-> [records EXCEPT ![k] = kept],
             constraints |-> cons, self |-> slf, target |-> k, rebuilt |-> rebuilt]
        loaded(x) ==
            IF ~Ok(x)
            THEN [unchanged EXCEPT !.err = x.err, !.target = k, !.rebuilt = k]
            ELSE searched(setobj(r, x.obj), r, constraints \o x.cons, x.self, k)
    IN  IF found = {} THEN [unchanged EXCEPT !.err = "ConstraintMarkNotFound"]
        ELSE IF ~NodeTruthy(r.obj)
             THEN loaded(exportitemsheet(self, context, r.sheet))
        ELSE searched(r, r, constraints, self, 0)

\* one turn of the loop of Exporter.checkconstraint, on constraint c:
\* the error raised, the records and the constraints after it, self as the
\* turn leaves it, the record the mark names (target, its index, or 0) and
\* which record was rebuilt (its index, or 0)
checkconstraint(self, context, records, constraints, c) ==
    LET found == {i \in 1..Len(records) : records[i].item = c.mark}
        k == Min(found)
        r == records[k]
        unchanged == [err |-> "none", records |-> records,
                      constraints |-> constraints, self |-> self, target |-> 0,
                      rebuilt |-> 0]
        searched(r1, cons, slf, rebuilt) ==
            [err |-> constraintsearch(r1.obj, c.field, c.valueinfo[3]),
             records |-> [records EXCEPT ![k] = r1],
             constraints |-> cons, self |-> slf, target |-> k, rebuilt |-> rebuilt]
        loaded(x) ==
            IF ~Ok(x)
            THEN [unchanged EXCEPT !.err = x.err, !.target = k, !.rebuilt = k]
            ELSE searched(setobj(r, x.obj), constraints \o x.cons, x.self, k)
    IN  IF found = {} THEN [unchanged EXCEPT !.err = "ConstraintMarkNotFound"]
        ELSE IF ~NodeTruthy(r.obj)
             THEN loaded(exportitemsheet(self, context, r.sheet))
        ELSE searched(r, constraints, self, 0)

\* the modification times an input file can have: before, at and after the
\* time an earlier run wrote its files
Times == {1, 2, 3}

\* the time of a write of this run: later than every time seen before it
Now == Max(Times) + 1

Formats == {<<"j","s","o","n">>, <<"x","m","l">>, <<"l","u","a">>}

\* Exporter.save(record): the record (the xml branch wraps its obj) and the
\* file written, if any.  The text written is the tree in the format; the
\* model keeps the format and the tree.
save(context, record) ==
    LET write(wrapped) ==
            [record |-> wrapped,
             written |-> context.format \in Formats,
             file |-> [exists |-> TRUE, mtime |-> Now,
                       content |-> [format |-> context.format,
                                    root |-> wrapped.root, obj |-> wrapped.obj]]]
    IN  write(IF context.format = <<"x","m","l">> /\ Truthy(record.item)
              THEN [record EXCEPT !.obj =
                      DictNode(<< <<record.item \o <<"s">>, record.obj>> >>)]
              ELSE record)

\* the entry of the schema journal that saves appends for a saved record
journalentry(r) ==
    [exportfile |-> r.exportfile, root |-> r.root,
     item |-> IF Truthy(r.item) THEN r.item ELSE r.exportmark,
     schema |-> r.schema]

(***************************************************************************)
(* The input: workbooks, options and the file system                       *)
(***************************************************************************)

\* a text cell and a numeric cell (xlrd gives a float)
text(s) == StrNode(s)

number(n) == FloatNode([neg |-> FALSE, ip |-> n, frac |-> <<>>])

\* hero.xlsx, an item-list sheet: items {id:1} and {id:2, lv:5}
SheetHero ==
    [name |-> <<"H","e","r","o","|","H","e">>,
     rows |-> <<
        <<text(<<"i","d">>), text(<<"l","e","v","e","l">>)>>,
        <<text(<<"i","n","t">>), text(<<"i","n","t">>)>>,
        <<text(<<"i","d">>), text(<<"l","v">>)>>,
        <<text(<<>>), text(<<>>)>>,
        <<number(1), text(<<>>)>>,
        <<number(2), number(5)>> >>]

\* hero.xlsx, a sheet without export mark
SheetReadme ==
    [name |-> <<"R","e","a","d","m","e">>,
     rows |-> <<
        <<text(<<"n","o","t","e","s">>)>> >>]

\* mount.xlsx, an item-list sheet whose column hero refers to He.id
SheetMount ==
    [name |-> <<"M","o","u","n","t","|","M","o">>,
     rows |-> <<
        <<text(<<"i","d">>), text(<<"r","i","d","e","r">>)>>,
        <<text(<<"i","n","t">>), text(<<"i","n","t","(","H","e",".","i","d",")">>)>>,
        <<text(<<"i","d">>), text(<<"h","e","r","o">>)>>,
        <<text(<<>>), text(<<>>)>>,
        <<number(1), number(2)>>,
        <<number(2), number(1)>> >>]

\* mount.xlsx, a config sheet whose field boss refers to Mo.id
SheetGlobal ==
    [name |-> <<"G","l","o","b","a","l","|","G","l">>,
     rows |-> <<
        <<text(<<"n","a","m","e">>), text(<<"v","a","l","u","e">>), text(<<"t","y","p","e">>)>>,
        <<text(<<"b","o","s","s">>), number(2), text(<<"i","n","t","(","M","o",".","i","d",")">>)>> >>]

\* pet.xlsx: owner 3 is the id of no hero
SheetPet ==
    [name |-> <<"P","e","t","|","P","e">>,
     rows |-> <<
        <<text(<<"i","d">>), text(<<"o","w","n","e","r">>)>>,
        <<text(<<"i","n","t">>), text(<<"i","n","t","(","H","e",".","i","d",")">>)>>,
        <<text(<<"i","d">>), text(<<"o","w","n","e","r">>)>>,
        <<text(<<>>), text(<<>>)>>,
        <<number(1), number(3)>> >>]

\* pet.xlsx: lv refers to He.lv, a field the first hero does not carry
SheetEgg ==
    [name |-> <<"E","g","g","|","E","g">>,
     rows |-> <<
        <<text(<<"i","d">>), text(<<"l","e","v","e","l">>)>>,
        <<text(<<"i","n","t">>), text(<<"i","n","t","(","H","e",".","l","v",")">>)>>,
        <<text(<<"i","d">>), text(<<"l","v">>)>>,
        <<text(<<>>), text(<<>>)>>,
        <<number(1), number(5)>> >>]

\* pet.xlsx: boss refers to the mark of a config sheet
SheetToy ==
    [name |-> <<"T","o","y","|","T","o">>,
     rows |-> <<
        <<text(<<"i","d">>), text(<<"b","o","s","s">>)>>,
        <<text(<<"i","n","t">>), text(<<"i","n","t","(","G","l",".","b","o","s","s",")">>)>>,
        <<text(<<"i","d">>), text(<<"b","o","s","s">>)>>,
        <<text(<<>>), text(<<>>)>>,
        <<number(1), number(2)>> >>]

\* alias.xlsx: an item-list sheet whose cell is no number
SheetBad ==
    [name |-> <<"B","a","d","|","B","a">>,
     rows |-> <<
        <<text(<<"i","d">>)>>,
        <<text(<<"i","n","t">>)>>,
        <<text(<<"i","d">>)>>,
        <<text(<<>>)>>,
        <<text(<<"x">>)>> >>]

\* alias.xlsx: a config sheet whose root Hes is the root of the items of He
SheetAlias ==
    [name |-> <<"C","f","g","|","H","e","s">>,
     rows |-> <<
        <<text(<<"n","a","m","e">>), text(<<"v","a","l","u","e">>), text(<<"t","y","p","e">>)>>,
        <<text(<<"m","a","x">>), number(9), text(<<"i","n","t">>)>> >>]

\* alias.xlsx: a second config sheet with the same root
SheetAlias2 ==
    [name |-> <<"C","f","g","2","|","H","e","s">>,
     rows |-> <<
        <<text(<<"t","y","p","e">>), text(<<"n","a","m","e">>), text(<<"v","a","l","u","e">>)>>,
        <<text(<<"i","n","t">>), text(<<"m","i","n">>), number(1)>> >>]

\* void.xlsx: an item-list sheet without data rows
SheetVoid ==
    [name |-> <<"V","o","i","d","|","V","o">>,
     rows |-> <<
        <<text(<<"i","d">>)>>,
        <<text(<<"i","n","t">>)>>,
        <<text(<<"i","d">>)>>,
        <<text(<<>>)>> >>]

\* void.xlsx: vo refers to Vo.id
SheetRef ==
    [name |-> <<"R","e","f","|","R","e">>,
     rows |-> <<
        <<text(<<"i","d">>), text(<<"v","o","i","d">>)>>,
        <<text(<<"i","n","t">>), text(<<"i","n","t","(","V","o",".","i","d",")">>)>>,
        <<text(<<"i","d">>), text(<<"v","o">>)>>,
        <<text(<<>>), text(<<>>)>>,
        <<number(1), number(1)>> >>]

\* loop.xlsx: ki refers to Ki.id
SheetKa ==
    [name |-> <<"K","a","|","K","a">>,
     rows |-> <<
        <<text(<<"i","d">>), text(<<"k","i">>)>>,
        <<text(<<"i","n","t">>), text(<<"i","n","t","(","K","i",".","i","d",")">>)>>,
        <<text(<<"i","d">>), text(<<"k","i">>)>>,
        <<text(<<>>), text(<<>>)>>,
        <<number(1), number(1)>> >>]

\* loop.xlsx: ka refers back to Ka.id, and me to the sheet's own Ki.id
SheetKi ==
    [name |-> <<"K","i","|","K","i">>,
     rows |-> <<
        <<text(<<"i","d">>), text(<<"k","a">>), text(<<"m","e">>)>>,
        <<text(<<"i","n","t">>), text(<<"i","n","t","(","K","a",".","i","d",")">>),
          text(<<"i","n","t","(","K","i",".","i","d",")">>)>>,
        <<text(<<"i","d">>), text(<<"k","a">>), text(<<"m","e">>)>>,
        <<text(<<>>), text(<<>>), text(<<>>)>>,
        <<number(1), number(1), number(1)>> >>]

P_hero == <<"h","e","r","o",".","x","l","s","x">>

P_mount == <<"m","o","u","n","t",".","x","l","s","x">>

P_pet == <<"p","e","t",".","x","l","s","x">>

P_alias == <<"a","l","i","a","s",".","x","l","s","x">>

P_void == <<"v","o","i","d",".","x","l","s","x">>

P_loop == <<"l","o","o","p",".","x","l","s","x">>

\* the input files the model knows
PathNames == {P_hero, P_mount, P_pet, P_alias, P_void, P_loop}

\* xlrd.open_workbook(path).sheets()
sheetsof(path) ==
    CASE path = P_hero -> <<SheetHero, SheetReadme>>
      [] path = P_mount -> <<SheetMount, SheetGlobal>>
      [] path = P_pet -> <<SheetPet, SheetEgg, SheetToy>>
      [] path = P_alias -> <<SheetBad, SheetAlias, SheetAlias2>>
      [] path = P_void -> <<SheetVoid, SheetRef>>
      [] path = P_loop -> <<SheetKa, SheetKi>>

\* the options of a run (class Context of __main__): the defaults with an
\* xml output and a schema journal, the two runs of __export.py, and a run
\* with a format that save does not know
Contexts ==
    { [format |-> <<"x","m","l">>, sign |-> None, extension |-> None,
       folder |-> <<"o","u","t">>, codegenerator |-> <<"s",".","j","s","o","n">>],
      [format |-> <<"j","s","o","n">>, sign |-> <<"s","e","r","v","e","r">>,
       extension |-> <<"C","o","n","f","i","g">>,
       folder |-> <<"c","o","n","f","i","g","_","s","e","r","v","e","r">>,
       codegenerator |-> <<"s","c","h","e","m","a","s","e","r","v","e","r",".","j","s","o","n">>],
      [format |-> <<"l","u","a">>, sign |-> <<"c","l","i","e","n","t">>,
       extension |-> <<"T","e","m","p","l","a","t","e">>,
       folder |-> <<"c","o","n","f","i","g","_","c","l","i","e","n","t">>,
       codegenerator |-> None],
      [format |-> <<"y","a","m","l">>, sign |-> None, extension |-> None,
       folder |-> <<"o","u","t">>, codegenerator |-> <<"s",".","j","s","o","n">>] }

\* the longest list of input paths
MaxPaths == 2

\* ','.join(list): the text of option -p
RECURSIVE joinpaths(_)
joinpaths(list) ==
    IF list = <<>> THEN <<>>
    ELSE IF Len(list) = 1 THEN list[1]
    ELSE list[1] \o <<",">> \o joinpaths(Tail(list))

\* the texts of option -p: up to MaxPaths paths, some of them empty
PathTexts ==
    {joinpaths(l) : l \in UNION {[1..n -> PathNames \cup {<<>>}] : n \in 0..MaxPaths}}

\* what a file held before the run is not looked at
Earlier == [format |-> <<>>, root |-> <<>>, obj |-> NoneNode]

NoFile == [exists |-> FALSE, mtime |-> 0, content |-> Earlier]

\* the states an output file can be in before the run: missing, or written
\* by an earlier run
FileStates == {NoFile, [exists |-> TRUE, mtime |-> 2, content |-> Earlier]}

(***************************************************************************)
(* Exporter.export as a state machine                                      *)
(*                                                                         *)
(* context      the options of the run, path being the text of option -p   *)
(* pc           where export is: "start", "paths" (the loop over the       *)
(*              paths), "sheets" (the loop over the sheets of a workbook), *)
(*              "checkconstraint", "saves", "done", or "failed" once an    *)
(*              error was raised                                           *)
(* error        the error raised, "none" until then                        *)
(* paths        the local paths of export; pathindex of them are taken     *)
(* sheetindex   the sheets of the open workbook already enumerated         *)
(* self         the attributes path, sheetname, rowindex, colindex         *)
(* records      self.records                                               *)
(* constraints  self.constraints; cindex of them are checked               *)
(* sindex       the records that saves has passed; schemas is its local    *)
(* srcmtime     the modification time of the input files the run has       *)
(*              looked at (a file not yet looked at has any time)          *)
(* files        the output files the run has looked at or written, and     *)
(*              files0 what they were when first looked at                 *)
(* journal      the schema journal file, and journal0 what it was before   *)
(* hist         history: entry[i] is the position in paths of the path     *)
(*              that registered record i, rebuilds[i] the number of times  *)
(*              checkconstraint rebuilt record i, checks the number of     *)
(*              constraints checkconstraint has looked at, pending the     *)
(*              number of constraints when checkconstraint was called, and *)
(*              last the latest constraint looked at: its mark, field and  *)
(*              value, the record it names (target, or 0), the items       *)
(*              searched and the outcome                                   *)
(* walk         the locals of the row loop of exportitemsheet, for the     *)
(*              specification of the loop alone (SpecWalk)                 *)
(* call         one call of a function of the module, its arguments and,   *)
(*              once it has returned, its result, for the specification    *)
(*              of the functions alone (SpecCall)                          *)
(***************************************************************************)
VARIABLES context, pc, error, paths, pathindex, sheetindex, self, records,
          constraints, cindex, sindex, schemas, srcmtime, files, files0,
          journal, journal0, hist, walk, call

vars == <<context, pc, error, paths, pathindex, sheetindex, self, records,
          constraints, cindex, sindex, schemas, srcmtime, files, files0,
          journal, journal0, hist, walk, call>>

EmptyMap == [k \in {} |-> 0]

\* f with key k set to v
MapSet(f, k, v) == [x \in DOMAIN f \cup {k} |-> IF x = k THEN v ELSE f[x]]

\* the paths of export: re.split('[,<whitespace>]+', context.path.strip())
splitpaths(path) == splitruns(strip(path), {","} \cup Whitespace)

\* the entries of the journal for the export sheets of a list of sheets
RECURSIVE earlierentries(_, _)
earlierentries(c, sheets) ==
    LET entry(mark, root) ==
            [exportfile |-> gerexportfilename(root, c.format, c.folder),
             root |-> root, item |-> mark, schema |-> NoneNode]
        marked(sheet, exportmark) ==
            IF exportmark.found
            THEN <<entry(exportmark.mark,
                         rootof(c, exportmark.mark,
                                getconfigsheetfinfo(sheet).isconfig))>>
            ELSE <<>>
        first(sheet) == marked(sheet, getexportmark(sheet.name))
    IN  IF sheets = <<>> THEN <<>>
        ELSE first(Head(sheets)) \o earlierentries(c, Tail(sheets))

\* a journal that an earlier run over the same input files left: an entry
\* for each of their export sheets (the schemas of that run are not looked at)
RECURSIVE earlierjournal(_, _, _)
earlierjournal(c, ps, done) ==
    IF ps = <<>> THEN <<>>
    ELSE IF Head(ps) = <<>> \/ Head(ps) \in done THEN earlierjournal(c, Tail(ps), done)
    ELSE earlierentries(c, sheetsof(Head(ps)))
         \o earlierjournal(c, Tail(ps), done \cup {Head(ps)})

NoJournal == [exists |-> FALSE, mtime |-> 0, entries |-> <<>>]

Journals(c) ==
    IF Truthy(c.codegenerator)
    THEN {NoJournal} \cup
         {[exists |-> TRUE, mtime |-> 2,
           entries |-> earlierjournal(c, splitpaths(c.path), {})]}
    ELSE {NoJournal}

\* the history before the first turn of checkconstraint
NoCheck == [mark |-> <<>>, field |-> <<>>, value |-> NoneNode, target |-> 0,
            items |-> NoneNode, err |-> "none"]

\* the attributes of a new Exporter
NewSelf == [path |-> None, sheetname |-> None, rowindex |-> 0, colindex |-> 0,
            attrs |-> {}]

\* no row loop
NoWalk == [sheet |-> [name |-> <<>>, rows |-> <<>>], rowindex |-> 0,
           w |-> itemwalk0(NewSelf)]

\* no call
NoCall == [fn |-> "none", args |-> <<>>, returned |-> FALSE, out |-> <<>>]

Init ==
    /\ context \in {[path |-> p, format |-> c.format, sign |-> c.sign,
                     extension |-> c.extension, folder |-> c.folder,
                     codegenerator |-> c.codegenerator] :
                        p \in PathTexts, c \in Contexts}
    /\ pc = "start"
    /\ error = "none"
    /\ paths = <<>>
    /\ pathindex = 0
    /\ sheetindex = 0
    /\ self = NewSelf
    /\ records = <<>>
    /\ constraints = <<>>
    /\ cindex = 0
    /\ sindex = 0
    /\ schemas = <<>>
    /\ srcmtime = EmptyMap
    /\ files = EmptyMap
    /\ files0 = EmptyMap
    /\ journal \in Journals(context)
    /\ journal0 = journal
    /\ hist = [entry |-> <<>>, rebuilds |-> <<>>, checks |-> 0, pending |-> 0,
              last |-> NoCheck]
    /\ walk = NoWalk
    /\ call = NoCall

\* export raises: the run ends
Fail(e) ==
    /\ pc' = "failed"
    /\ error' = e

\* paths = re.split(...)
Start ==
    /\ pc = "start"
    /\ paths' = splitpaths(context.path)
    /\ pc' = "paths"
    /\ UNCHANGED <<context, error, pathindex, sheetindex, self, records,
                   constraints, cindex, sindex, schemas, srcmtime, files, files0,
                   journal, journal0, hist, walk, call>>

\* for self.path in paths: an empty path is passed over
SkipPath ==
    /\ pc = "paths"
    /\ pathindex < Len(paths)
    /\ paths[pathindex + 1] = <<>>
    /\ self' = [self EXCEPT !.path = paths[pathindex + 1]]
    /\ pathindex' = pathindex + 1
    /\ UNCHANGED <<context, pc, error, paths, sheetindex, records, constraints,
                   cindex, sindex, schemas, srcmtime, files, files0, journal,
                   journal0, hist, walk, call>>

\* self.checkpath(self.path) raises
PathDuplicate ==
    /\ pc = "paths"
    /\ pathindex < Len(paths)
    /\ paths[pathindex + 1] # <<>>
    /\ checkpath(records, paths[pathindex + 1]) # "none"
    /\ Fail(checkpath(records, paths[pathindex + 1]))
    /\ self' = [self EXCEPT !.path = paths[pathindex + 1]]
    /\ pathindex' = pathindex + 1
    /\ UNCHANGED <<context, paths, sheetindex, records, constraints, cindex,
                   sindex, schemas, srcmtime, files, files0, journal, journal0,
                   hist, walk, call>>

\* data = xlrd.open_workbook(self.path)
OpenWorkbook ==
    /\ pc = "paths"
    /\ pathindex < Len(paths)
    /\ paths[pathindex + 1] # <<>>
    /\ checkpath(records, paths[pathindex + 1]) = "none"
    /\ self' = [self EXCEPT !.path = paths[pathindex + 1]]
    /\ pathindex' = pathindex + 1
    /\ sheetindex' = 0
    /\ pc' = "sheets"
    /\ UNCHANGED <<context, error, paths, records, constraints, cindex, sindex,
                   schemas, srcmtime, files, files0, journal, journal0, hist, walk, call>>

\* the body of the loop over the sheets (export, lines 285-306) on one
\* sheet, srcmtime and tar being what os.path reports of self.path and of
\* the export file: kind is "unmarked", "failed", "skipped" or "built", and
\* stat tells whether isoutofdate was reached
exportsheet(slf, ctx, recs, sheet, srctime, tar) ==
    LET exportmark == getexportmark(sheet.name)
        self1 == [slf EXCEPT !.sheetname = sheet.name]
        configtitleinfo == getconfigsheetfinfo(sheet)
        root == rootof(ctx, exportmark.mark, configtitleinfo.isconfig)
        item == itemof(exportmark.mark, configtitleinfo.isconfig)
        exportfile == gerexportfilename(root, ctx.format, ctx.folder)
        out(kind, err, s, rs, cons, file, stat) ==
            [kind |-> kind, err |-> err, self |-> s, records |-> rs,
             cons |-> cons, exportfile |-> file, stat |-> stat]
        loaded(x) ==
            IF ~Ok(x) THEN out("failed", x.err, x.self, recs, <<>>, exportfile, TRUE)
            ELSE out("built", "none", x.self,
                     addrecord(recs, slf.path, sheet, exportfile, root, item, x.obj,
                               exportmark.mark),
                     x.cons, exportfile, TRUE)
    IN  IF ~exportmark.found
        THEN out("unmarked", "none", self1, recs, <<>>, <<>>, FALSE)
        ELSE IF ~Ok(configtitleinfo)
        THEN out("failed", configtitleinfo.err, self1, recs, <<>>, <<>>, FALSE)
        ELSE IF checksheetname(recs, slf.path, sheet.name, root) # "none"
        THEN out("failed", checksheetname(recs, slf.path, sheet.name, root),
                 self1, recs, <<>>, exportfile, FALSE)
        ELSE IF ~isoutofdate(srctime, tar)
        THEN out("skipped", "none", self1,
                 addrecord(recs, slf.path, sheet, exportfile, root, item, NoneNode,
                           exportmark.mark),
                 <<>>, exportfile, TRUE)
        ELSE loaded(IF Truthy(item) THEN exportitemsheet(self1, ctx, sheet)
                    ELSE exportconfigsheet(self1, ctx, sheet,
                                           configtitleinfo.titleindexs))

\* one turn of the loop over the sheets, with the outcome kind
SheetTurn(kind) ==
    LET turn(srctime, tar, o) ==
            /\ o.kind = kind
            /\ o.exportfile \in DOMAIN files => tar = files[o.exportfile]
            /\ self' = o.self
            /\ records' = o.records
            /\ constraints' = constraints \o o.cons
            /\ srcmtime' = IF o.stat THEN MapSet(srcmtime, self.path, srctime)
                           ELSE srcmtime
            /\ files' = IF o.stat THEN MapSet(files, o.exportfile, tar) ELSE files
            /\ files0' = IF o.stat THEN MapSet(files0, o.exportfile, tar) ELSE files0
            /\ hist' = IF Len(o.records) > Len(records)
                       THEN [hist EXCEPT !.entry = Append(@, pathindex),
                                         !.rebuilds = Append(@, 0)]
                       ELSE hist
            /\ IF kind = "failed" THEN Fail(o.err)
               ELSE UNCHANGED <<pc, error>>
    IN  /\ pc = "sheets"
        /\ sheetindex < Len(sheetsof(self.path))
        /\ (kind = "unmarked")
              = ~getexportmark(sheetsof(self.path)[sheetindex + 1].name).found
        /\ \E srctime \in (IF self.path \in DOMAIN srcmtime
                            THEN {srcmtime[self.path]} ELSE Times),
              tar \in FileStates :
             turn(srctime, tar,
                  exportsheet(self, context, records,
                              sheetsof(self.path)[sheetindex + 1], srctime, tar))
        /\ sheetindex' = sheetindex + 1
        /\ UNCHANGED <<context, paths, pathindex, cindex, sindex, schemas, journal,
                       journal0, walk, call>>

\* a sheet whose name holds no export mark
SheetUnmarked ==
    /\ pc = "sheets"
    /\ SheetTurn("unmarked")

\* a sheet that raises: no title row, a root already defined, a cell or a
\* type that cannot be bound
SheetFailed ==
    /\ pc = "sheets"
    /\ SheetTurn("failed")

\* an export sheet whose file is up to date: a record without trees
SheetSkipped ==
    /\ pc = "sheets"
    /\ SheetTurn("skipped")

\* an export sheet that is out of date: a record with its trees
SheetBuilt ==
    /\ pc = "sheets"
    /\ SheetTurn("built")

\* the loop over the sheets ends
EndWorkbook ==
    /\ pc = "sheets"
    /\ sheetindex = Len(sheetsof(self.path))
    /\ pc' = "paths"
    /\ UNCHANGED <<context, error, paths, pathindex, sheetindex, self, records,
                   constraints, cindex, sindex, schemas, srcmtime, files, files0,
                   journal, journal0, hist, walk, call>>

\* checkconstraint called while paths are left
EndPaths_early ==
    /\ pc = "paths"
    /\ pc' = "checkconstraint"
    /\ hist' = [hist EXCEPT !.pending = Len(constraints)]
    /\ UNCHANGED <<context, error, paths, pathindex, sheetindex, self, records,
                   constraints, cindex, sindex, schemas, srcmtime, files, files0,
                   journal, journal0, walk, call>>

\* the loop over the paths ends: self.checkconstraint() is called
EndPaths ==
    /\ pc = "paths"
    /\ pathindex = Len(paths)
    /\ pc' = "checkconstraint"
    /\ hist' = [hist EXCEPT !.pending = Len(constraints)]
    /\ UNCHANGED <<context, error, paths, pathindex, sheetindex, self, records,
                   constraints, cindex, sindex, schemas, srcmtime, files, files0,
                   journal, journal0, walk, call>>

\* the history after a turn of checkconstraint
checked(h, o, c) ==
    [h EXCEPT !.checks = @ + 1,
              !.rebuilds = IF o.rebuilt = 0 THEN @
                           ELSE [@ EXCEPT ![o.rebuilt] = @ + 1],
              !.last = [mark |-> c.mark, field |-> c.field,
                        value |-> c.valueinfo[3], target |-> o.target,
                        items |-> IF o.target = 0 THEN NoneNode
                                  ELSE o.records[o.target].obj,
                        err |-> o.err]]

\* a turn of the loop of checkconstraint that raises nothing
ConstraintPass ==
    /\ pc = "checkconstraint"
    /\ cindex < Len(constraints)
    /\ LET turn(o) == /\ Ok(o)
                      /\ records' = o.records
                      /\ constraints' = o.constraints
                      /\ self' = o.self
                      /\ hist' = checked(hist, o, constraints[cindex + 1])
       IN  turn(checkconstraint(self, context, records, constraints,
                                constraints[cindex + 1]))
    /\ cindex' = cindex + 1
    /\ UNCHANGED <<context, pc, error, paths, pathindex, sheetindex, sindex,
                   schemas, srcmtime, files, files0, journal, journal0, walk, call>>

\* a turn of the loop of checkconstraint that raises
ConstraintFail ==
    /\ pc = "checkconstraint"
    /\ cindex < Len(constraints)
    /\ LET turn(o) == /\ ~Ok(o)
                      /\ Fail(o.err)
                      /\ hist' = checked(hist, o, constraints[cindex + 1])
       IN  turn(checkconstraint(self, context, records, constraints,
                                constraints[cindex + 1]))
    /\ UNCHANGED <<context, paths, pathindex, sheetindex, self, records,
                   constraints, cindex, sindex, schemas, srcmtime, files, files0,
                   journal, journal0, walk, call>>

\* saves called while constraints are left
EndConstraints_early ==
    /\ pc = "checkconstraint"
    /\ pc' = "saves"
    /\ UNCHANGED <<context, error, paths, pathindex, sheetindex, self, records,
                   constraints, cindex, sindex, schemas, srcmtime, files, files0,
                   journal, journal0, hist, walk, call>>

\* checkconstraint returns: self.saves() is called
EndConstraints ==
    /\ pc = "checkconstraint"
    /\ cindex = Len(constraints)
    /\ pc' = "saves"
    /\ UNCHANGED <<context, error, paths, pathindex, sheetindex, self, records,
                   constraints, cindex, sindex, schemas, srcmtime, files, files0,
                   journal, journal0, hist, walk, call>>

\* a turn of the loop of saves on a record with needsave
SaveRecord ==
    /\ pc = "saves"
    /\ sindex < Len(records)
    /\ records[sindex + 1].needsave
    /\ LET saved(s) ==
               /\ records' = [records EXCEPT ![sindex + 1] = s.record]
               /\ files' = IF s.written
                           THEN MapSet(files, s.record.exportfile, s.file)
                           ELSE files
               /\ schemas' = IF Truthy(context.codegenerator)
                             THEN Append(schemas, journalentry(s.record))
                             ELSE schemas
       IN  saved(save(context, records[sindex + 1]))
    /\ sindex' = sindex + 1
    /\ UNCHANGED <<context, pc, error, paths, pathindex, sheetindex, self,
                   constraints, cindex, srcmtime, files0, journal, journal0, hist, walk, call>>

\* a turn of the loop of saves on a record without needsave
PassRecord ==
    /\ pc = "saves"
    /\ sindex < Len(records)
    /\ ~records[sindex + 1].needsave
    /\ sindex' = sindex + 1
    /\ UNCHANGED <<context, pc, error, paths, pathindex, sheetindex, self, records,
                   constraints, cindex, schemas, srcmtime, files, files0, journal,
                   journal0, hist, walk, call>>

\* the end of saves with schemas to write: the journal is written anew
WriteJournal ==
    /\ pc = "saves"
    /\ sindex = Len(records)
    /\ schemas # <<>> /\ Truthy(context.codegenerator)
    /\ journal' = [exists |-> TRUE, mtime |-> Now, entries |-> schemas]
    /\ pc' = "done"
    /\ UNCHANGED <<context, error, paths, pathindex, sheetindex, self, records,
                   constraints, cindex, sindex, schemas, srcmtime, files, files0,
                   journal0, hist, walk, call>>

\* the end of saves without schemas
EndSaves ==
    /\ pc = "saves"
    /\ sindex = Len(records)
    /\ ~(schemas # <<>> /\ Truthy(context.codegenerator))
    /\ pc' = "done"
    /\ UNCHANGED <<context, error, paths, pathindex, sheetindex, self, records,
                   constraints, cindex, sindex, schemas, srcmtime, files, files0,
                   journal, journal0, hist, walk, call>>

Next ==
    \/ Start
    \/ SkipPath
    \/ PathDuplicate
    \/ OpenWorkbook
    \/ SheetUnmarked
    \/ SheetFailed
    \/ SheetSkipped
    \/ SheetBuilt
    \/ EndWorkbook
    \/ EndPaths
    \/ ConstraintPass
    \/ ConstraintFail
    \/ EndConstraints
    \/ SaveRecord
    \/ PassRecord
    \/ WriteJournal
    \/ EndSaves

Spec == Init /\ [][Next]_vars

\* a step of the loop of checkconstraint (lines 496-508), told by what it does
\* to the position in the list and in the run: the loop takes the next
\* constraint, a turn raises, or the list is exhausted and the call returns.
\* Every step of Next inside checkconstraint is such a step, and one exists
\* whenever the position is within the list.
checkstep ==
    /\ pc = "checkconstraint"
    /\ \/ cindex < Len(constraints) /\ cindex' = cindex + 1 /\ pc' = pc
       \/ cindex < Len(constraints) /\ cindex' = cindex /\ pc' = "failed"
       \/ cindex = Len(constraints) /\ cindex' = cindex /\ pc' = "saves"

\* the run as the interpreter executes it: a sequential program whose loop
\* is not suspended, so checkconstraint, once called, keeps taking its steps
SpecRun == Init /\ [][Next]_vars /\ WF_<<pc, cindex>>(checkstep)

(***************************************************************************)
(* The row loop of exportitemsheet alone (lines 351-379), one row a step,  *)
(* on every sheet of two columns and up to MaxRows data rows drawn from    *)
(* WalkRows, under each sign option.                                       *)
(***************************************************************************)

\* the longest run of data rows of a sheet of the row loop
MaxRows == 5

\* the data rows: blank, blank first cell before a value, comment, both
\* cells filled, first cell alone
WalkRows ==
    { <<text(<<>>), text(<<>>)>>,
      <<text(<<>>), number(5)>>,
      <<text(<<"#","1">>), number(5)>>,
      <<number(1), number(5)>>,
      <<number(1), text(<<>>)>> }

\* the sheets: the first column typed or not, the second one bound to the
\* levels of the heroes, for every run or for the client's alone
WalkSheets ==
    {[name |-> <<"W","a","l","k","|","W","a">>,
      rows |-> << <<text(<<"i","d">>), text(<<"l","e","v","e","l">>)>>,
                  <<text(t), text(<<"i","n","t","(","H","e",".","l","v",")">>)>>,
                  <<text(<<"i","d">>), text(<<"l","v">>)>>,
                  <<text(<<>>), text(g)>> >> \o rows] :
        t \in {<<>>, <<"i","n","t">>},
        g \in {<<>>, <<"c","l","i","e","n","t">>},
        rows \in UNION {[1..n -> WalkRows] : n \in 0..MaxRows}}

\* the options of the runs of the loop: the two runs of __export.py
WalkContexts ==
    {[path |-> <<"w","a","l","k",".","x","l","s","x">>, format |-> c.format,
      sign |-> c.sign, extension |-> c.extension, folder |-> c.folder,
      codegenerator |-> c.codegenerator] : c \in {d \in Contexts : d.sign # None}}

WalkInit ==
    /\ context \in WalkContexts
    /\ pc = "rows"
    /\ error = "none"
    /\ paths = <<context.path>>
    /\ pathindex = 1
    /\ sheetindex = 1
    /\ walk \in {[sheet |-> sheet, rowindex |-> 4,
                  w |-> itemwalk0([NewSelf EXCEPT !.path = context.path,
                                                  !.sheetname = sheet.name])] :
                    sheet \in WalkSheets}
    /\ self = walk.w.self
    /\ records = <<>>
    /\ constraints = <<>>
    /\ cindex = 0
    /\ sindex = 0
    /\ schemas = <<>>
    /\ srcmtime = EmptyMap
    /\ files = EmptyMap
    /\ files0 = EmptyMap
    /\ journal = NoFile
    /\ journal0 = journal
    /\ hist = [entry |-> <<>>, rebuilds |-> <<>>, checks |-> 0, pending |-> 0,
              last |-> NoCheck]
    /\ call = NoCall

\* one turn of the loop `for self.rowindex in range(4, sheet.nrows)`
WalkRow ==
    LET turn(w) ==
            /\ walk' = [walk EXCEPT !.rowindex = @ + 1, !.w = w]
            /\ self' = w.self
            /\ constraints' = w.cons
            /\ error' = w.err
            /\ pc' = IF Ok(w) THEN "rows" ELSE "failed"
    IN  /\ pc = "rows"
        /\ walk.rowindex < nrows(walk.sheet)
        /\ ~walk.w.stop
        /\ turn(itemrow(titleinfos(context, walk.sheet), walk.sheet,
                        walk.rowindex, walk.w))
        /\ UNCHANGED <<context, paths, pathindex, sheetindex, records, cindex,
                       sindex, schemas, srcmtime, files, files0, journal,
                       journal0, hist, call>>

\* the loop ends: the rows are used up, or the break of line 357
WalkEnd ==
    /\ pc = "rows"
    /\ walk.rowindex >= nrows(walk.sheet) \/ walk.w.stop
    /\ pc' = "walked"
    /\ UNCHANGED <<context, error, paths, pathindex, sheetindex, self, records,
                   constraints, cindex, sindex, schemas, srcmtime, files, files0,
                   journal, journal0, hist, walk, call>>

WalkNext ==
    \/ WalkRow
    \/ WalkEnd

SpecWalk == WalkInit /\ [][WalkNext]_vars

(***************************************************************************)
(* The functions of the module alone: one call a behaviour, the arguments  *)
(* drawn from the sets below.                                              *)
(***************************************************************************)

\* the options of the calls: those of the runs, on one workbook
CallContexts ==
    {[path |-> <<"c","a","l","l",".","x","l","s","x">>, format |-> c.format,
      sign |-> c.sign, extension |-> c.extension, folder |-> c.folder,
      codegenerator |-> c.codegenerator] : c \in Contexts}

\* the Exporter of the calls, before its first sheet
CallSelf == [NewSelf EXCEPT !.path = <<"c","a","l","l",".","x","l","s","x">>]

\* the sign cells of the sheets of the calls
CallSigns == {<<>>, <<"c","l","i","e","n","t">>, <<"s","e","r","v","e","r">>}

\* the item-list sheets of the calls: two columns, each with a type or
\* none and a sign, the second one with a name or none, and up to one row
CallItemSheets ==
    {[name |-> <<"C","a","l","l","|","C","a">>,
      rows |-> << <<text(<<"i","d">>), text(<<"l","e","v","e","l">>)>>,
                  <<text(t1), text(t2)>>,
                  <<text(<<"i","d">>), text(n2)>>,
                  <<text(g1), text(g2)>> >> \o rows] :
        t1 \in {<<>>, <<"i","n","t">>}, t2 \in {<<>>, <<"i","n","t">>},
        n2 \in {<<>>, <<"l","v">>}, g1 \in CallSigns, g2 \in CallSigns,
        rows \in {<<>>, << <<number(1), number(5)>> >>,
                  << <<number(1), text(<<>>)>> >>}}

\* the calls of exportitemsheet
ItemSheetCalls ==
    {[fn |-> "exportitemsheet", args |-> [context |-> c, sheet |-> sheet],
      returned |-> FALSE, out |-> <<>>] :
        c \in CallContexts, sheet \in CallItemSheets}

\* the calls of issignmatch: the option -s absent or one sign, and sign
\* cells that are empty, one token, part of a token or several tokens
SignCalls ==
    {[fn |-> "issignmatch", args |-> [signarg |-> a, sign |-> g],
      returned |-> FALSE, out |-> <<>>] :
        a \in {None, <<"s","e","r","v","e","r">>, <<"c","l","i","e","n","t">>},
        g \in {<<>>, <<" ">>, <<"s","e","r","v","e","r">>,
               <<"c","l","i","e","n","t">>, <<"s","e","r","v">>, <<"e">>,
               <<"c","l","i","e","n","t","/","s","e","r","v","e","r">>,
               <<"c","l","i","e","n","t","\\","s","e","r","v","e","r">>,
               <<"c","l","i","e","n","t",",","s","e","r","v","e","r">>,
               <<"c","l","i","e","n","t"," ","s","e","r","v","e","r">>,
               <<"c","l","i","e","n","t",":","s","e","r","v","e","r">>,
               <<"c","l","i","e","n","t",";","s","e","r","v","e","r">>,
               <<"c","l","i","e","n","t","s","/","x">>}}

\* the longest run of rows of a config sheet of the calls
MaxConfigRows == 5

\* the cell under a title of row k (from 1) of a config sheet of the calls:
\* the row is blank, a field f<k> of type int and value 9 without sign or
\* with the sign client, or a comment
configcell(title, kind, k) ==
    CASE title = <<"n","a","m","e">> ->
            text(IF kind = "blank" THEN <<>>
                 ELSE IF kind = "comment" THEN <<"#","f">>
                 ELSE <<"f", <<"1","2","3","4","5","6","7","8","9">>[k]>>)
      [] title = <<"v","a","l","u","e">> ->
            IF kind = "blank" THEN text(<<>>) ELSE number(9)
      [] title = <<"t","y","p","e">> ->
            text(IF kind = "blank" THEN <<>> ELSE <<"i","n","t">>)
      [] title = <<"s","i","g","n">> ->
            text(IF kind = "client" THEN <<"c","l","i","e","n","t">> ELSE <<>>)

\* the calls of exportconfigsheet: the sign column absent, last or first
ConfigSheetCalls ==
    {[fn |-> "exportconfigsheet",
      args |-> [context |-> c,
                kinds |-> kinds,
                sheet |-> [name |-> <<"C","a","l","l","|","C","a">>,
                           rows |-> <<[i \in 1..Len(titles) |-> text(titles[i])]>>
                                    \o [k \in 1..Len(kinds) |->
                                          [i \in 1..Len(titles) |->
                                             configcell(titles[i], kinds[k], k)]]]],
      returned |-> FALSE, out |-> <<>>] :
        c \in CallContexts,
        titles \in {SubSeq(configsheettitles, 1, 3), SubSeq(configsheettitles, 1, 4),
                    <<configsheettitles[4]>> \o SubSeq(configsheettitles, 1, 3)},
        kinds \in UNION {[1..n -> {"blank", "field", "client", "comment"}] :
                           n \in 0..MaxConfigRows}}

\* the calls of gettype: texts of length 0 and 1, the four kinds of type,
\* and texts that are close to one
GettypeCalls ==
    {[fn |-> "gettype", args |-> [type_ |-> t], returned |-> FALSE, out |-> <<>>] :
      t \in {
        <<>>, <<"x">>, <<"[">>, <<"]">>, <<"[","]">>, <<"{","}">>, <<"{">>,
        <<"i","n","t">>, <<"d","o","u","b","l","e">>, <<"s","t","r","i","n","g">>,
        <<"b","o","o","l">>, <<"i","n">>, <<"f","l","o","a","t">>,
        <<"i","n","t","[","]">>, <<"x","[","]">>, <<"{","a","}">>,
        <<"{","a","}","[","]">>, <<"{","i","n","t","[","]">>,
        <<"i","n","t","(","A",".","b",")">>,
        <<"s","t","r","i","n","g","(","A",".","b",")">>,
        <<"i","n","t"," ","(","A",".","b",")">>,
        <<"x","i","n","t","(","A",".","b",")","y">>,
        <<"i","n","t","(","A",".","b",")","[","]">>,
        <<"d","o","u","b","l","e","(","A",".","b",")">>,
        <<"i","n","t","(","A",".",")">>, <<"i","n","t","(",".","b",")">>,
        <<"i","n","t","(","A","b",")">>, <<"b","o","o","l"," ">> }}

\* the calls of buildlistexpress in data mode: lists of int and of string
\* under the name id, with full, empty and blank tokens
ListCalls ==
    {[fn |-> "buildlistexpress",
      args |-> [type_ |-> t \o <<"[","]">>, name |-> <<"i","d">>, value |-> v],
      returned |-> FALSE, out |-> <<>>] :
        t \in {T_int, T_string},
        v \in {
              <<"[","1",",","2",",","3","]">>, <<"[","]">>,
              <<"[","1",",",",","2","]">>, <<"[","1",","," ",",","2","]">>,
              <<"["," ","]">>, <<"[","7","]">>, <<"1",",","2">>,
              <<"[","1",",","2",",","]">>, <<"[",",","1","]">>,
              <<"[","3",","," ","4","]">> }}

\* the calls of fillvalue on an empty dict, in schema mode and in data mode
FillCalls ==
    {[fn |-> "fillvalue", args |-> [name |-> n, isschema |-> b],
      returned |-> FALSE, out |-> <<>>] :
        b \in BOOLEAN,
        n \in {
              <<"a">>, <<"a","b">>, <<"_">>, <<"_","a">>, <<"_","a","-","b">>,
              <<"a","-","b">>, <<"1","a">>, <<>>, <<"A","1">>, <<"a","_","b">>,
              <<"a","1","-">>, <<"-">> }}

\* the calls of getexportmark: sheet names without '|', with '|' before an
\* identifier of one or more characters, and with '|' before something else
MarkCalls ==
    {[fn |-> "getexportmark", args |-> [sheetName |-> n],
      returned |-> FALSE, out |-> <<>>] :
        n \in {
              <<"H","e","r","o">>, <<"H","e","r","o","|","H","e">>,
              <<"H","e","r","o","|","h">>,
              <<"H","e","r","o","|","_","h","e","r","o">>,
              <<"H","e","r","o","|","_">>, <<"H","e","r","o","|">>,
              <<"|","A","b">>, <<"H","e","r","o","|","1","a">>,
              <<"H","e","r","o","|","H","e"," ","s">>, <<"A","|","-","|","B","c">>,
              <<"H","e","r","o","|","h","|","M","o">>,
              <<"H","e","r","o","|","H","e","_","1">>, <<"a","|","b","|","c">> }}

CallInit ==
    /\ \/ call \in ItemSheetCalls
       \/ call \in MarkCalls
       \/ call \in FillCalls
       \/ call \in ListCalls
       \/ call \in GettypeCalls
       \/ call \in ConfigSheetCalls
       \/ call \in SignCalls
    /\ context = (IF "context" \in DOMAIN call.args THEN call.args.context
                  ELSE CHOOSE c \in CallContexts : c.sign = None /\ c.format \in Formats)
    /\ pc = "call"
    /\ error = "none"
    /\ paths = <<>>
    /\ pathindex = 0
    /\ sheetindex = 0
    /\ self = CallSelf
    /\ records = <<>>
    /\ constraints = <<>>
    /\ cindex = 0
    /\ sindex = 0
    /\ schemas = <<>>
    /\ srcmtime = EmptyMap
    /\ files = EmptyMap
    /\ files0 = EmptyMap
    /\ journal = NoFile
    /\ journal0 = journal
    /\ hist = [entry |-> <<>>, rebuilds |-> <<>>, checks |-> 0, pending |-> 0,
              last |-> NoCheck]
    /\ walk = NoWalk

\* what a call leaves alone
CallFrame ==
    UNCHANGED <<context, pc, error, paths, pathindex, sheetindex, self, records,
                constraints, cindex, sindex, schemas, srcmtime, files, files0,
                journal, journal0, hist, walk>>

\* the call returns out
Return(out) == call' = [call EXCEPT !.returned = TRUE, !.out = out]

\* self.exportitemsheet(sheet)
CallExportitemsheet ==
    /\ call.fn = "exportitemsheet"
    /\ ~call.returned
    /\ Return(exportitemsheet(self, call.args.context, call.args.sheet))
    /\ CallFrame

\* issignmatch(signarg, sign)
CallIssignmatch ==
    /\ call.fn = "issignmatch"
    /\ ~call.returned
    /\ Return(issignmatch(call.args.signarg, call.args.sign))
    /\ CallFrame

\* self.exportconfigsheet(sheet, configtitleinfo), as export calls it
CallExportconfigsheet ==
    /\ call.fn = "exportconfigsheet"
    /\ ~call.returned
    /\ Return(exportconfigsheet(self, call.args.context, call.args.sheet,
                                getconfigsheetfinfo(call.args.sheet).titleindexs))
    /\ CallFrame

\* self.gettype(type_)
CallGettype ==
    /\ call.fn = "gettype"
    /\ ~call.returned
    /\ Return(gettype(call.args.type_))
    /\ CallFrame

\* self.buildlistexpress(parent, type_, name, value, False) on an empty
\* item, in a cell of row 4
CallBuildlistexpress ==
    /\ call.fn = "buildlistexpress"
    /\ ~call.returned
    /\ Return(buildlistexpress([self EXCEPT !.rowindex = 4,
                                            !.attrs = {"rowindex", "colindex"}],
                               DictNode(<<>>), call.args.type_, call.args.name,
                               StrNode(call.args.value), FALSE))
    /\ CallFrame

\* fillvalue(parent, name, value, isschema) with parent an empty dict
CallFillvalue ==
    /\ call.fn = "fillvalue"
    /\ ~call.returned
    /\ Return(fillvalue(DictNode(<<>>), call.args.name, IntNode(1),
                        call.args.isschema))
    /\ CallFrame

\* getexportmark(sheet.name)
CallGetexportmark ==
    /\ call.fn = "getexportmark"
    /\ ~call.returned
    /\ Return(getexportmark(call.args.sheetName))
    /\ CallFrame

CallNext ==
    \/ CallExportitemsheet
    \/ CallGetexportmark
    \/ CallFillvalue
    \/ CallBuildlistexpress
    \/ CallGettype
    \/ CallExportconfigsheet
    \/ CallIssignmatch

SpecCall == CallInit /\ [][CallNext]_vars

(***************************************************************************)
(* Properties                                                              *)
(***************************************************************************)

\* the root export computes for a sheet with an export mark (lines 287-294)
rootofsheet(ctx, sheet) ==
    rootof(ctx, getexportmark(sheet.name).mark, getconfigsheetfinfo(sheet).isconfig)

\* the sheet the next turn of the loop over the sheets is about
nextsheet == sheetsof(self.path)[sheetindex + 1]

\* the sheet the last turn of the loop over the sheets was about
lastsheet == sheetsof(self.path)[sheetindex]

\* record i was found up to date by the staleness check: its export file
\* existed and was not older than its source when export looked at them
uptodate(i) ==
    /\ files0[records[i].exportfile].exists
    /\ srcmtime[records[i].path] <= files0[records[i].exportfile].mtime

\* C1: in every step of a run the registered records have pairwise different
\* roots, and a sheet with an export mark and a title row whose root a
\* registered record already holds makes the run fail with DuplicateRoot and
\* registers nothing, whether that record was built or skipped and whichever
\* file it came from.
C1_UniqueRoot ==
    [][ /\ \A i, j \in 1..Len(records') :
              i # j => records'[i].root # records'[j].root
        /\ ( /\ pc = "sheets"
             /\ sheetindex' = sheetindex + 1
             /\ getexportmark(nextsheet.name).found
             /\ Ok(getconfigsheetfinfo(nextsheet))
             /\ \E i \in 1..Len(records) :
                    records[i].root = rootofsheet(context, nextsheet) )
           => /\ pc' = "failed"
              /\ error' = "DuplicateRoot"
              /\ records' = records
        /\ error' = "DuplicateRoot"
           => /\ pc = "sheets"
              /\ \E i \in 1..Len(records) :
                    records[i].root = rootofsheet(context, nextsheet) ]_vars

\* C1 witness: DuplicateRoot raised by a sheet whose root is held by a
\* record of another file that the staleness check skipped
C1_Witness ==
    /\ pc = "failed"
    /\ error = "DuplicateRoot"
    /\ \E i \in 1..Len(records) :
          /\ records[i].root = rootofsheet(context, lastsheet)
          /\ records[i].path # self.path
          /\ ~records[i].needsave

\* C2 as stated: the registered records have pairwise different source
\* paths, or the run has failed with DuplicatePath
C2_AsStated ==
    \/ \A i, j \in 1..Len(records) : i # j => records[i].path # records[j].path
    \/ error = "DuplicatePath"

\* C2: records registered from different entries of the list of paths have
\* different source paths (the records of the sheets of one workbook share
\* its path), and an entry whose path a registered record already holds
\* makes the run fail with DuplicatePath before any sheet of it is read.
C2_UniquePathPerEntry ==
    [][ /\ \A i, j \in 1..Len(records') :
              hist'.entry[i] # hist'.entry[j] => records'[i].path # records'[j].path
        /\ ( /\ pc = "paths"
             /\ pathindex' = pathindex + 1
             /\ \E i \in 1..Len(records) : records[i].path = paths[pathindex + 1] )
           => /\ pc' = "failed"
              /\ error' = "DuplicatePath"
              /\ records' = records
        /\ error' = "DuplicatePath"
           => /\ pc = "paths"
              /\ \E i \in 1..Len(records) : records[i].path = paths[pathindex + 1] ]_vars

\* C2 witness: DuplicatePath raised for a workbook that gave two records
C2_Witness ==
    /\ pc = "failed"
    /\ error = "DuplicatePath"
    /\ \E i, j \in 1..Len(records) :
          i # j /\ records[i].path = self.path /\ records[j].path = self.path

\* C3: a constraint is checked only when every entry of the list of paths
\* has been gone through, and after the first check no record is registered;
\* a turn of the loop over the sheets checks nothing and only appends to the
\* pending constraints.
C3_CheckAfterCollection ==
    [][ /\ hist'.checks # hist.checks
           => /\ pc = "checkconstraint"
              /\ pathindex = Len(paths)
              /\ Len(records') = Len(records)
        /\ Len(records') # Len(records) => pc = "sheets" /\ hist.checks = 0
        /\ pc = "sheets"
           => /\ hist'.checks = hist.checks
              /\ cindex' = 0
              /\ Len(constraints') >= Len(constraints)
              /\ SubSeq(constraints', 1, Len(constraints)) = constraints ]_vars

\* C3 witness: a constraint accepted whose target was registered after the
\* sheet that holds the constraint
C3_Witness ==
    /\ pc = "checkconstraint"
    /\ cindex > 0
    /\ hist.checks > 0
    /\ hist.last.err = "none"
    /\ \E i \in 1..Len(records) :
          /\ records[i].path = constraints[cindex].path
          /\ records[i].sheet.name = constraints[cindex].sheetname
          /\ i < hist.last.target

\* C4 as stated: a constraint whose target record exists is accepted if and
\* only if some item of the record's sequence has the field equal to the
\* value, and otherwise fails with ConstraintFieldNotFound
C4_AsStated ==
    LET c == hist.last
        match == \E k \in 1..Len(c.items.v) :
                    /\ DictHas(c.items.v[k], c.field)
                    /\ PyEq(DictGet(c.items.v[k], c.field), c.value)
    IN  (hist.checks > 0 /\ c.target # 0 /\ c.items.t = "list")
        => /\ c.err = "none" <=> match
           /\ ~match => c.err = "ConstraintFieldNotFound"

\* C5: a turn of checkconstraint fails with ConstraintMarkNotFound exactly
\* when no registered record of an item-list sheet carries the constraint's
\* mark; the record of a config sheet with that mark does not count.
C5_MarkNotFound ==
    hist.checks > 0
    => ( hist.last.err = "ConstraintMarkNotFound"
         <=> ~\E i \in 1..Len(records) :
                 /\ ~getconfigsheetfinfo(records[i].sheet).isconfig
                 /\ records[i].exportmark = hist.last.mark )

\* C5 witness: ConstraintMarkNotFound for a mark that a registered config
\* sheet carries
C5_Witness ==
    /\ hist.checks > 0
    /\ hist.last.err = "ConstraintMarkNotFound"
    /\ \E i \in 1..Len(records) :
          /\ getconfigsheetfinfo(records[i].sheet).isconfig
          /\ records[i].exportmark = hist.last.mark

\* C6: a registered record has needsave and its trees exactly when its
\* export file was missing or its source was strictly newer than the file;
\* otherwise (equal times included) it is registered with needsave false and,
\* until checkconstraint rebuilds it, without trees.
C6_Staleness ==
    \A i \in 1..Len(records) :
        LET tar == files0[records[i].exportfile]
            stale == ~tar.exists \/ srcmtime[records[i].path] > tar.mtime
        IN  /\ records[i].needsave <=> stale
            /\ stale => records[i].schema # NoneNode
            /\ (~stale /\ hist.rebuilds[i] = 0)
               => records[i].obj = NoneNode /\ records[i].schema = NoneNode

\* C6 witness: a record skipped because the export file is as old as the
\* source
C6_Witness ==
    \E i \in 1..Len(records) :
        /\ files0[records[i].exportfile].exists
        /\ srcmtime[records[i].path] = files0[records[i].exportfile].mtime
        /\ ~records[i].needsave
        /\ records[i].obj = NoneNode

\* the entries of a journal for an export file
entriesof(j, exportfile) ==
    SelectSeq(j.entries, LAMBDA e : e.exportfile = exportfile)

\* C7 as stated: the export file and the journal entry of a record that the
\* staleness check skipped are as they were before the run
C7_AsStated ==
    \A i \in 1..Len(records) :
        uptodate(i)
        => /\ files[records[i].exportfile] = files0[records[i].exportfile]
           /\ entriesof(journal, records[i].exportfile)
                = entriesof(journal0, records[i].exportfile)

\* C7: the export file of a record that the staleness check skipped is as it
\* was before the run, even when checkconstraint rebuilt its trees, and saves
\* makes no journal entry for it; when every record was skipped no file and
\* no journal is written. (The journal is written anew from the records
\* saved in the run, so an earlier entry of a skipped record does not last.)
C7_SkippedNotWritten ==
    /\ \A i \in 1..Len(records) :
          uptodate(i)
          => /\ files[records[i].exportfile] = files0[records[i].exportfile]
             /\ \A k \in 1..Len(schemas) :
                   schemas[k].exportfile # records[i].exportfile
             /\ journal # journal0
                => entriesof(journal, records[i].exportfile) = <<>>
    /\ (\A i \in 1..Len(records) : uptodate(i))
       => files = files0 /\ journal = journal0

\* C7 witness: a finished run that wrote its journal and in which a record
\* skipped by the staleness check was rebuilt by checkconstraint
C7_Witness ==
    /\ pc = "done"
    /\ journal # journal0
    /\ \E i \in 1..Len(records) : uptodate(i) /\ hist.rebuilds[i] > 0

\* C8: an export file or the journal differs from what it was before the run
\* only once every constraint has been checked without error; a run that
\* raised has written nothing.
C8_WriteAfterChecks ==
    /\ (files # files0 \/ journal # journal0 \/ sindex > 0 \/ schemas # <<>>)
       => /\ pc \in {"saves", "done"}
          /\ error = "none"
          /\ pathindex = Len(paths)
          /\ cindex = Len(constraints)
          /\ hist.checks = Len(constraints)
    /\ (pc = "failed" \/ error # "none")
       => files = files0 /\ journal = journal0

\* C8 witness: a run that a constraint made fail with records to save
C8_Witness ==
    /\ pc = "failed"
    /\ hist.checks > 0
    /\ hist.last.err # "none"
    /\ \E i \in 1..Len(records) : records[i].needsave

\* C9 as stated: checkconstraint rebuilds a skipped record at most once and
\* never a record built during the collection
C9_AsStated ==
    \A i \in 1..Len(records) :
        /\ hist.rebuilds[i] <= 1
        /\ records[i].needsave => hist.rebuilds[i] = 0

\* C10: in a step of the row loop, a row with a blank first cell adds one to
\* the counter and gives no item and no constraint; a row whose first cell
\* starts with '#' leaves the counter, the items and the constraints as they
\* are; the loop stops exactly when the counter reaches 3 and no row is
\* walked after that; the counter goes back to 0 only on a row that is
\* neither blank nor a comment and has a value in a column with a type and
\* a name.
C10_BlankRows ==
    [][ walk'.rowindex # walk.rowindex
        => LET row == walk.sheet.rows[walk.rowindex + 1]
               first == strip(str(row[1]))
               populated ==
                   \E c \in 1..Len(row) :
                       /\ strip(str(walk.sheet.rows[2][c])) # <<>>
                       /\ strip(str(walk.sheet.rows[3][c])) # <<>>
                       /\ strip(str(row[c])) # <<>>
               before == walk.w
               after == walk'.w
               contributes == after.list_ # before.list_ \/ after.cons # before.cons
           IN  /\ ~before.stop
               /\ before.spacerowcount < 3
               /\ after.stop <=> after.spacerowcount >= 3
               /\ first = <<>>
                  => after.spacerowcount = before.spacerowcount + 1 /\ ~contributes
               /\ (first # <<>> /\ first[1] = "#")
                  => after.spacerowcount = before.spacerowcount /\ ~contributes
               /\ (first # <<>> /\ first[1] # "#")
                  => after.spacerowcount = IF populated THEN 0
                                           ELSE before.spacerowcount
               /\ SubSeq(after.list_, 1, Len(before.list_)) = before.list_
               /\ SubSeq(after.cons, 1, Len(before.cons)) = before.cons ]_vars

\* C10 witness: the loop has stopped on the third blank row, after a comment
\* row that did not empty the counter, with a data row left unwalked
C10_Witness ==
    /\ walk.w.stop
    /\ walk.w.spacerowcount = 3
    /\ walk.rowindex < nrows(walk.sheet)
    /\ strip(str(walk.sheet.rows[walk.rowindex + 1][1])) \notin {<<>>, <<"#","1">>}
    /\ \E r \in 5..walk.rowindex : strip(str(walk.sheet.rows[r][1])) = <<"#","1">>

\* the columns of row r (from 1) of the sheet of the row loop that have a
\* type, a name, a value in the row and a sign that passes the filter
boundcolumns(r) ==
    {c \in 1..ncols(walk.sheet) :
        /\ titleinfos(context, walk.sheet)[c].type_ # <<>>
        /\ titleinfos(context, walk.sheet)[c].name # <<>>
        /\ titleinfos(context, walk.sheet)[c].signmatch
        /\ strip(str(walk.sheet.rows[r][c])) # <<>>}

\* the rows (from 1) the row loop has walked that are neither blank nor
\* comments
datarows ==
    {r \in 5..walk.rowindex :
        /\ strip(str(walk.sheet.rows[r][1])) # <<>>
        /\ strip(str(walk.sheet.rows[r][1]))[1] # "#"}

\* C11 as stated: every walked row that is neither blank nor a comment adds
\* exactly one element to the item sequence
C11_AsStated ==
    [][ ( /\ walk'.rowindex # walk.rowindex
          /\ strip(str(walk.sheet.rows[walk.rowindex + 1][1])) # <<>>
          /\ strip(str(walk.sheet.rows[walk.rowindex + 1][1]))[1] # "#" )
        => Len(walk'.w.list_) = Len(walk.w.list_) + 1 ]_vars

\* C11: a walked row that is neither blank nor a comment adds one element at
\* the end of the item sequence, holding the names of its bound columns in
\* column order, when some column with a type, a name and a passing sign has
\* a value in the row; a row without such a column adds nothing (its empty
\* item is dropped). Blank rows and comment rows add nothing.
C11_OneItemPerBoundRow ==
    [][ walk'.rowindex # walk.rowindex
        => LET r == walk.rowindex + 1
               first == strip(str(walk.sheet.rows[r][1]))
               before == walk.w.list_
               after == walk'.w.list_
           IN  IF first # <<>> /\ first[1] # "#" /\ boundcolumns(r) # {}
               THEN /\ Len(after) = Len(before) + 1
                    /\ SubSeq(after, 1, Len(before)) = before
                    /\ {after[Len(after)].v[k][1] : k \in 1..Len(after[Len(after)].v)}
                         = {titleinfos(context, walk.sheet)[c].name :
                               c \in boundcolumns(r)}
               ELSE after = before ]_vars

\* C11 witness: of the rows walked that are neither blank nor comments, some
\* gave an item and some, without a bound column, gave none
C11_Witness ==
    /\ pc = "walked"
    /\ walk.w.list_ # <<>>
    /\ \E r \in datarows : boundcolumns(r) = {}
    /\ Len(walk.w.list_) = Cardinality({r \in datarows : boundcolumns(r) # {}})

\* the names of the columns cols of the titles, in column order
namesof(titles, cols) ==
    LET picked == SelectSeq([c \in 1..Len(titles) |-> c], LAMBDA c : c \in cols)
    IN  [k \in 1..Len(picked) |-> titles[picked[k]].name]

\* the keys of an ordered dict, in order
keysof(d) == [k \in 1..Len(d.v) |-> d.v[k][1]]

\* the columns of the titles with a type and a name
namedcolumns(titles) ==
    {c \in 1..Len(titles) : titles[c].type_ # <<>> /\ titles[c].name # <<>>}

\* the columns of the titles with a type, a name and a sign that passes
passingcolumns(titles) == {c \in namedcolumns(titles) : titles[c].signmatch}

\* C12 as stated: with schema emission requested the schema tree of an
\* item-list sheet has one entry for each column with a type and a name,
\* whatever its sign, and the items hold values of passing columns only
C12_AsStated ==
    (call.fn = "exportitemsheet" /\ call.returned /\ Ok(call.out)
        /\ Truthy(call.args.context.codegenerator))
    => LET titles == titleinfos(call.args.context, call.args.sheet)
       IN  /\ keysof(call.out.obj.v[1]) = namesof(titles, namedcolumns(titles))
           /\ \A i \in 1..Len(call.out.obj.v[2].v) :
                 \A k \in 1..Len(call.out.obj.v[2].v[i].v) :
                    \E c \in passingcolumns(titles) :
                       titles[c].name = call.out.obj.v[2].v[i].v[k][1]

\* C12: with schema emission requested the schema tree of an item-list sheet
\* has one entry, in column order, for each column with a type and a name
\* whose sign passes the active filter, so it follows the sign set as the
\* items do; the items hold values of passing columns only; without schema
\* emission the schema tree is empty.
C12_SchemaFollowsSign ==
    (call.fn = "exportitemsheet" /\ call.returned /\ Ok(call.out))
    => LET titles == titleinfos(call.args.context, call.args.sheet)
       IN  /\ keysof(call.out.obj.v[1])
                = IF Truthy(call.args.context.codegenerator)
                  THEN namesof(titles, passingcolumns(titles))
                  ELSE <<>>
           /\ \A i \in 1..Len(call.out.obj.v[2].v) :
                 \A k \in 1..Len(call.out.obj.v[2].v[i].v) :
                    \E c \in passingcolumns(titles) :
                       titles[c].name = call.out.obj.v[2].v[i].v[k][1]

\* C12 witness: a sheet exported with schema emission whose first column
\* passes the sign filter and whose second column, with a type, a name and
\* a value, does not
C12_Witness ==
    /\ call.fn = "exportitemsheet"
    /\ call.returned
    /\ Ok(call.out)
    /\ Truthy(call.args.context.codegenerator)
    /\ LET titles == titleinfos(call.args.context, call.args.sheet)
       IN  /\ passingcolumns(titles) = {1}
           /\ namedcolumns(titles) = {1, 2}
           /\ nrows(call.args.sheet) = 5
           /\ strip(str(call.args.sheet.rows[5][2])) # <<>>
           /\ Len(call.out.obj.v[2].v) = 1

\* the tokens of a text between the separators of a sign cell
signtokens(t) ==
    LET cut(tokens) == {tokens[i] : i \in 1..Len(tokens)}
    IN  cut(split(t, {"/", "\\", ",", " ", ":"}))

\* C13 as stated: issignmatch is true if and only if no sign option is given
\* or some token of the sign cell is one of the signs of the option
C13_AsStated ==
    (call.fn = "issignmatch" /\ call.returned)
    => ( call.out <=> ( \/ call.args.signarg = None
                        \/ signtokens(call.args.sign)
                             \cap (signtokens(call.args.signarg) \ {<<>>}) # {} ) )

\* C14 as stated: the fields of a config sheet come from rows that are not
\* comments, whose sign passes the active filter wherever the sign column
\* stands, and that come before the walk stops on the third blank row,
\* comment rows leaving the blank counter as it is
C14_AsStated ==
    (call.fn = "exportconfigsheet" /\ call.returned /\ Ok(call.out))
    => LET kinds == call.args.kinds
           signed == \E i \in 1..Len(call.args.sheet.rows[1]) :
                        call.args.sheet.rows[1][i].v = <<"s","i","g","n">>
           passes(k) == \/ kinds[k] = "field"
                        \/ kinds[k] = "client"
                           /\ (~signed \/ issignmatch(call.args.context.sign,
                                                      <<"c","l","i","e","n","t">>))
           \* the blank rows since the last field row before row k
           blanks(k) == Cardinality({j \in 1..(k - 1) :
                           /\ kinds[j] = "blank"
                           /\ \A m \in (j + 1)..(k - 1) : ~passes(m)})
           fields == {<<"f", <<"1","2","3","4","5","6","7","8","9">>[k]>> :
                        k \in {j \in 1..Len(kinds) : passes(j) /\ blanks(j) < 3}}
       IN  {call.out.obj.v[2].v[i][1] : i \in 1..Len(call.out.obj.v[2].v)} = fields

\* C15 as stated: gettype gives the first kind, of list, object, primitive
\* and bound reference, that the text matches, and fails with IllegalType
\* when it matches none, whatever the length of the text
C15_AsStated ==
    (call.fn = "gettype" /\ call.returned)
    => LET t == call.args.type_
           n == Len(t)
           expected ==
               IF n >= 2 /\ t[n - 1] = "[" /\ t[n] = "]" THEN "list"
               ELSE IF n >= 1 /\ t[1] = "{" /\ t[n] = "}" THEN "obj"
               ELSE IF t \in {T_int, T_double, T_string, T_bool} THEN "base"
               ELSE IF bindsearch(t).found THEN "bind"
               ELSE "IllegalType"
       IN  IF expected = "IllegalType" THEN call.out.err = "IllegalType"
           ELSE call.out.err = "none" /\ call.out.kind = expected

\* C16 as stated: binding a list value in data mode gives, under the key
\* name + 's', the tokens between the commas of the value without its
\* brackets, in order, the empty and the blank tokens left out, and raises
\* nothing
C16_AsStated ==
    (call.fn = "buildlistexpress" /\ call.returned)
    => LET tokens == split(stripchars(call.args.value, {"[", "]"}), {","})
           kept == SelectSeq(tokens, LAMBDA t : strip(t) # <<>>)
           key == call.args.name \o <<"s">>
       IN  /\ call.out.err = "none"
           /\ keysof(call.out.parent) = <<key>>
           /\ DictGet(call.out.parent, key).t = "list"
           /\ Len(DictGet(call.out.parent, key).v) = Len(kept)
           /\ \A k \in 1..Len(kept) :
                 DictGet(call.out.parent, key).v[k]
                    = IF call.args.type_ = T_int \o <<"[","]">>
                      THEN IntNode(DigitsToNat(strip(kept[k])))
                      ELSE StrNode(kept[k])

\* a legal identifier: a letter or '_', then letters, digits and '_'
identifier(name) ==
    /\ Len(name) >= 1
    /\ name[1] \in Letters \cup {"_"}
    /\ \A k \in 2..Len(name) : name[k] \in WordChars

\* C17 as stated: in schema mode filling a named field succeeds exactly when
\* the name is a legal identifier and fails with IllegalIdentifier otherwise;
\* in data mode it always succeeds
C17_AsStated ==
    (call.fn = "fillvalue" /\ call.returned)
    => IF call.args.isschema /\ ~identifier(call.args.name)
       THEN call.out.err = "IllegalIdentifier"
       ELSE /\ call.out.err = "none"
            /\ call.out.parent = DictNode(<< <<call.args.name, IntNode(1)>> >>)

\* C19 as stated: a sheet name has an export mark exactly when it holds a
\* '|' followed by a legal identifier, and the mark is that whole
\* identifier, taken at the first such '|'
C19_AsStated ==
    (call.fn = "getexportmark" /\ call.returned)
    => LET name == call.args.sheetName
           n == Len(name)
           starts == {i \in 1..(n - 1) :
                        name[i] = "|" /\ name[i + 1] \in Letters \cup {"_"}}
           i0 == Min(starts)
           last == Max({e \in (i0 + 1)..n :
                          \A k \in (i0 + 1)..e : name[k] \in WordChars})
       IN  IF starts = {} THEN ~call.out.found
           ELSE /\ call.out.found
                /\ call.out.mark = SubSeq(name, i0 + 1, last)
                /\ identifier(call.out.mark)

\* C18 as stated: a run whose format is none of json, xml and lua fails with
\* UnsupportedFormat before a workbook is opened: it reaches neither the
\* sheets, nor the constraints, nor the saves, nor a successful end
C18_AsStated ==
    context.format \notin Formats
    => /\ pc \in {"start", "paths", "failed"}
       /\ records = <<>>
       /\ pc = "failed" => error = "UnsupportedFormat"

\* the cell at row and column (from 0) of a sheet is the one a constraint
\* with this valueinfo was bound from: in an item-list sheet the column has
\* the type and the name, in a config sheet the row has them and the column
\* is the value's
boundfrom(sheet, rowindex, colindex, valueinfo) ==
    /\ rowindex < nrows(sheet)
    /\ colindex < ncols(sheet)
    /\ IF getconfigsheetfinfo(sheet).isconfig
       THEN /\ rowindex >= 1
            /\ colindex = getconfigsheetfinfo(sheet).titleindexs[2]
            /\ strip(str(pyindex(row_values(sheet, rowindex),
                                 getconfigsheetfinfo(sheet).titleindexs[3])))
                 = valueinfo[1]
            /\ strip(str(pyindex(row_values(sheet, rowindex),
                                 getconfigsheetfinfo(sheet).titleindexs[1])))
                 = valueinfo[2]
       ELSE /\ rowindex >= 4
            /\ strip(str(row_values(sheet, 1)[colindex + 1])) = valueinfo[1]
            /\ strip(str(row_values(sheet, 2)[colindex + 1])) = valueinfo[2]
            /\ strip(str(row_values(sheet, rowindex)[colindex + 1])) # <<>>

\* C20 as stated: every pending constraint carries the path, the sheet name,
\* the row and the column of the cell whose binding created it
C20_AsStated ==
    \A k \in 1..Len(constraints) :
        /\ constraints[k].path \in PathNames
        /\ \E i \in 1..Len(sheetsof(constraints[k].path)) :
              /\ sheetsof(constraints[k].path)[i].name = constraints[k].sheetname
              /\ boundfrom(sheetsof(constraints[k].path)[i], constraints[k].rowindex,
                           constraints[k].colindex, constraints[k].valueinfo)

\* C21: constraint resolution terminates.  A turn of checkconstraint makes
\* the list of constraints longer only by rebuilding a record that was not
\* rebuilt before, so no record is rebuilt twice and the list stops growing;
\* the constraints a rebuild appends are looked at in the same pass, so the
\* saves begin only when every constraint, the appended ones included, has
\* been looked at; a run that a turn ends stops at the first turn that
\* raises, with its error; and a run that has entered checkconstraint
\* always leaves it, for the saves or with an error.
C21_ResolutionTerminates ==
    /\ [][ Len(constraints') # Len(constraints) /\ hist.checks # hist'.checks
           => /\ Len(constraints') > Len(constraints)
              /\ SubSeq(constraints', 1, Len(constraints)) = constraints
              /\ \E i \in 1..Len(records) :
                    /\ hist.rebuilds[i] = 0
                    /\ hist'.rebuilds[i] = 1 ]_vars
    /\ [][pc = "checkconstraint" => checkstep]_vars
    /\ [](pc = "checkconstraint" => cindex <= Len(constraints))
    /\ [](\A i \in 1..Len(records) : hist.rebuilds[i] <= 1)
    /\ [](pc \in {"saves", "done"}
            => /\ cindex = Len(constraints)
               /\ hist.checks = Len(constraints)
               /\ Len(constraints) >= hist.pending)
    /\ [](pc = "failed" /\ hist.checks > 0
            => /\ hist.checks = cindex + 1
               /\ cindex < Len(constraints)
               /\ hist.last.err # "none"
               /\ error = hist.last.err)
    /\ (pc = "checkconstraint") ~> (pc \in {"saves", "failed"})

\* a pass that has ended for the saves after a rebuild appended constraints,
\* the last of them naming a record that the pass itself rebuilt
C21_Witness ==
    /\ pc = "saves"
    /\ Len(constraints) > hist.pending
    /\ hist.checks = Len(constraints)
    /\ hist.last.target # 0
    /\ hist.rebuilds[hist.last.target] = 1
    /\ \E i \in 1..Len(records) : i # hist.last.target /\ hist.rebuilds[i] = 0

====
